---- MODULE Spec2Model ----
(***************************************************************************)
(* Upload / transfer state machine of kloom.                               *)
(*                                                                         *)
(* The Firestore "recordings" collection, the settings singleton, the GCS  *)
(* holding bucket and the Drive folder are shared state.  Every route      *)
(* handler is a process running in a handler slot; each `await` of the     *)
(* handler is one atomic step, so handlers interleave at their awaits.     *)
(***************************************************************************)
EXTENDS Integers, Sequences, FiniteSets, TLC

\* ---------------------------------------------------------------- bounds
NumHandlers == 2      \* route handlers that may be in flight at once
MaxOps == 3           \* requests accepted in one behaviour
MaxClock == 1         \* ticks of the clock in one behaviour

\* ---------------------------------------------------------------- inputs
Ids == {"abc12345"}                  \* values of uuidv4().slice(0, 8)
Folders == {"F1"}                    \* Drive folder ids a user may save
MoreFolders == {"F1", "F2"}          \* ... when Settings is edited again
Sizes == {0, 1024}                   \* byte lengths of request bodies
Titles == {"Demo"}                   \* titles sent with a create
PatchBodies ==                       \* JSON bodies sent with a rename
    {[title |-> "Notes", status |-> "error", id |-> "other", viewCount |-> 7,
      driveFileId |-> 9, gcsPath |-> "x", driveFolderId |-> "F9", createdAt |-> 9],
     [status |-> "error"]}
Slots == 1..NumHandlers

VARIABLES
    ledger,      \* recordings collection: id -> document
    settings,    \* driveFolderId of the settings singleton ("" when unset)
    gcs,         \* paths of the objects present in the holding bucket
    drive,       \* sequence of the files ever created in Drive
    signed,      \* ids whose signed upload URL has been handed to a client
    hs,          \* handler slots: position and locals of each handler
    response,    \* the response sent last: handler, id, outcome, driveFileId
                 \*   (for uploadInBackground: the rejection of its promise)
    used,        \* ids drawn so far by uuidv4()
    viewsDone,   \* id -> incrementViewCount calls that returned successfully
                 \*       since the document was created
    ops,         \* number of requests accepted so far
    clock,       \* the time new Date() gives
    poller,      \* the UploadProgress component of the uploading client
    player,      \* the VideoPlayer component of a share-link viewer
    call,        \* a computation looked at by itself: its inputs and result
    session,     \* the viewer_sessions document of one viewing session
    tracks,      \* the POST /api/analytics/track handlers in flight
    accepted,    \* the events of the session answered success: how many, largest time
    recorder,    \* the useRecorder hook: its state, refs and pending events
    inflight     \* the polls of UploadProgress sent and not answered yet

\* state kept outside the route handlers
clientVars ==
    <<poller, player, call, session, tracks, accepted, recorder, inflight>>

vars == <<ledger, settings, gcs, drive, signed, hs, response, used, viewsDone,
          ops, clock, clientVars>>

\* ------------------------------------------------------------ documents
NoDoc ==
    [exists |-> FALSE, id |-> "", title |-> "", status |-> "none",
     driveFileId |-> 0, driveFolderId |-> "", gcsPath |-> "", viewCount |-> 0,
     fileSize |-> 0, createdAt |-> 0, updatedAt |-> 0]

\* generateSignedUploadUrl: the holding path derived from the recording id
GcsPathOf(id) == "uploads/" \o id \o ".webm"

\* variant: updatedAt is not stamped by the create
createRecording_noStamp(id, title, folder, size, path, now) ==
    [exists |-> TRUE, id |-> id, title |-> title, status |-> "processing",
     driveFileId |-> 0, driveFolderId |-> folder, gcsPath |-> path,
     viewCount |-> 0, fileSize |-> size, createdAt |-> now, updatedAt |-> 0]

\* createRecording: the full document written by set(); viewCount starts at
\* 0, createdAt and updatedAt are the one `now` of the call
createRecording(id, title, folder, size, path, now) ==
    [exists |-> TRUE, id |-> id, title |-> title, status |-> "processing",
     driveFileId |-> 0, driveFolderId |-> folder, gcsPath |-> path,
     viewCount |-> 0, fileSize |-> size, createdAt |-> now, updatedAt |-> now]

\* variant: the write replaces the document by the updates (a set() without
\* merge)
updateRecording_replace(doc, updates, now) ==
    [f \in DOMAIN doc |-> IF f = "updatedAt" THEN now
                          ELSE IF f \in DOMAIN updates THEN updates[f]
                          ELSE IF f = "exists" THEN TRUE
                          ELSE NoDoc[f]]

\* updateRecording: updateData is { ...updates, updatedAt: now } (a createdAt
\* among the updates is kept, re-formatted); update() merges it into the
\* stored document
updateRecording(doc, updates, now) ==
    [f \in DOMAIN doc |-> IF f = "updatedAt" THEN now
                          ELSE IF f \in DOMAIN updates THEN updates[f]
                          ELSE doc[f]]

\* ------------------------------------------------------ UploadProgress
\* const maxPolls = 300
maxPolls == 300

\* no UploadProgress is on screen
Unmounted == [status |-> "none", pollCount |-> 0, polling |-> FALSE]

\* no computation is looked at
NoCall == [fn |-> "none"]

\* a value that is undefined (or null) in a request body or a document
Undefined == 0 - 1

\* no viewer_sessions document
NoSession ==
    [exists |-> FALSE, watchedSeconds |-> 0, completionRate |-> 0,
     maxPosition |-> 0, events |-> 0, endedAt |-> Undefined]

\* no event of the session has been answered { success: true }
NoEvents == [count |-> 0, largest |-> 0]

\* a free slot of the analytics handler
NoTrack ==
    [pc |-> "idle", eventType |-> "", currentTime |-> Undefined,
     duration |-> Undefined, snap |-> NoSession]

\* the hook as useRecorder() first returns it: the initial state, no
\* MediaRecorder in mediaRecorderRef, no timer, nothing pending
NoRecorder ==
    [isRecording |-> FALSE, isPaused |-> FALSE, duration |-> 0,
     screenStream |-> FALSE, webcamStream |-> FALSE, error |-> FALSE,
     mediaRecorder |-> "null", starting |-> FALSE, onstop |-> 0,
     timer |-> FALSE, leaked |-> FALSE, share |-> FALSE, resolved |-> "none",
     called |-> "none"]

\* no share page is open
NoPlayer == [status |-> "none", polling |-> FALSE, fetches |-> 0]

\* ------------------------------------------------------------- handlers
Idle ==
    [kind |-> "none", pc |-> "idle", id |-> "", title |-> "", size |-> 0,
     gcsPath |-> "", folder |-> "", fileId |-> 0, saw |-> "none",
     marked |-> FALSE, dirty |-> FALSE, cnt |-> 0, body |-> <<>>]

Free(h) == hs[h].pc = "idle"

NoResponse == [kind |-> "none", id |-> "", code |-> "none", driveFileId |-> 0]

\* the handler answers `code` (with `fid` as driveFileId in the body)
Respond(r, code, fid) ==
    response' = [kind |-> r.kind, id |-> r.id, code |-> code, driveFileId |-> fid]

\* slot h goes on with locals `rec`; when the step wrote document hs[h].id,
\* the view-count transactions waiting to commit on it have a stale read
Slot(h, rec, wrote) ==
    hs' = [k \in Slots |->
             IF k = h THEN rec
             ELSE IF wrote /\ hs[k].pc = "txCommit" /\ hs[k].id = hs[h].id
                  THEN [hs[k] EXCEPT !.dirty = TRUE]
                  ELSE hs[k]]

Go(h, rec) == Slot(h, rec, FALSE) /\ UNCHANGED response

\* the handler in slot h answers and ends
Return(h, code) ==
    /\ Slot(h, Idle, FALSE)
    /\ Respond(hs[h], code, 0)

\* a call of the handler threw: control goes to its catch block
Throw(r) == [r EXCEPT !.pc = "catch"]

\* variant: a set() with merge, which writes whether or not the document is
\* there
CanUpdate_upsert(id, ok) == ok

\* firestore ...doc(id).update(): fails when the document is absent
CanUpdate(id, ok) == ok /\ ledger[id].exists

\* `await updateRecording(id, updates)` inside a try block: the merge is
\* written and the handler goes on with `rec`, or the call throws
TryUpdate(h, ok, updates, rec) ==
    LET r == hs[h] IN
    IF CanUpdate(r.id, ok)
    THEN /\ ledger' = [ledger EXCEPT ![r.id] = updateRecording(@, updates, clock)]
         /\ Slot(h, rec, TRUE)
    ELSE /\ ledger' = ledger
         /\ Slot(h, Throw(r), FALSE)

Init ==
    /\ ledger = [id \in Ids |-> NoDoc]
    /\ settings = ""
    /\ gcs = {}
    /\ drive = <<>>
    /\ signed = {}
    /\ hs = [h \in Slots |-> Idle]
    /\ response = NoResponse
    /\ used = {}
    /\ viewsDone = [id \in Ids |-> 0]
    /\ ops = 0
    /\ clock = 0
    /\ poller = Unmounted
    /\ session = NoSession
    /\ tracks = [t \in Slots |-> NoTrack]
    /\ accepted = NoEvents
    /\ recorder = NoRecorder
    /\ inflight = <<>>
    /\ player = NoPlayer
    /\ call = NoCall

\* a request arrives and is given a free slot
Accept(h, rec) ==
    /\ Free(h)
    /\ ops < MaxOps
    /\ ops' = ops + 1
    /\ hs' = [hs EXCEPT ![h] = rec]
    /\ UNCHANGED <<ledger, settings, gcs, drive, signed, response, viewsDone, clock, clientVars>>

\* time passes
Tick ==
    /\ clock < MaxClock
    /\ clock' = clock + 1
    /\ UNCHANGED <<ledger, settings, gcs, drive, signed, hs, response, used,
                   viewsDone, ops, clientVars>>

\* a request addressed at a recording id
Request(h, rec) == Accept(h, rec) /\ UNCHANGED used

\* ------------------------------------------------------------ settings
\* POST /api/settings: saveSettings stores the (non-empty) folder id
saveSettings(folder) ==
    /\ settings # folder
    /\ settings' = folder
    /\ UNCHANGED <<ledger, gcs, drive, signed, hs, response, ops, used, viewsDone, clock, clientVars>>

\* a client that was handed the signed URL puts its bytes at the holding path
GcsClientPut(id) ==
    /\ id \in signed
    /\ GcsPathOf(id) \notin gcs
    /\ gcs' = gcs \cup {GcsPathOf(id)}
    /\ UNCHANGED <<ledger, settings, drive, signed, hs, response, ops, used, viewsDone, clock, clientVars>>

\* ------------------------------------------------- create a recording
\* POST /api/upload (JSON create), POST of the signed-URL create, and
\* POST /api/recordings (create with file).  `id` is the value uuidv4() will
\* give this request: a value it has not given before.
CreateStart(h, kind, title, size, id) ==
    /\ id \notin used
    /\ used' = used \cup {id}
    /\ Accept(h, [Idle EXCEPT !.kind = kind, !.pc = "settings", !.id = id,
                              !.title = title, !.size = size])

\* variant: the create goes on whether or not a folder is configured
CreateSettings_noCheck(h, ok) ==
    LET r == hs[h] IN
    /\ r.kind \in {"createJson", "createSigned", "createFile"}
    /\ r.pc = "settings"
    /\ IF ~ok THEN Return(h, "500")
       ELSE Go(h, [r EXCEPT !.folder = settings,
                            !.pc = IF r.kind = "createSigned" THEN "sign" ELSE "set"])
    /\ UNCHANGED <<ledger, settings, gcs, drive, signed, ops, used, viewsDone, clock, clientVars>>

\* first await: getSettings
CreateSettings(h, ok) ==
    LET r == hs[h] IN
    /\ r.kind \in {"createJson", "createSigned", "createFile"}
    /\ r.pc = "settings"
    /\ IF ~ok THEN Return(h, "500")
       ELSE IF settings = "" THEN Return(h, "400 Misconfigured")
       ELSE Go(h, [r EXCEPT !.folder = settings,
                            !.pc = IF r.kind = "createSigned" THEN "sign" ELSE "set"])
    /\ UNCHANGED <<ledger, settings, gcs, drive, signed, ops, used, viewsDone, clock, clientVars>>

\* generateSignedUploadUrl before the document is written
CreateSign(h, ok) ==
    LET r == hs[h] IN
    /\ r.kind = "createSigned" /\ r.pc = "sign"
    /\ IF ok THEN Go(h, [r EXCEPT !.pc = "set", !.gcsPath = GcsPathOf(r.id)])
       ELSE Return(h, "500")
    /\ UNCHANGED <<ledger, settings, gcs, drive, signed, ops, used, viewsDone, clock, clientVars>>

\* variant: the create answers with the share path although the document
\* was not written
CreateSet_answerFirst(h, ok) ==
    LET r == hs[h] IN
    /\ r.kind \in {"createJson", "createSigned", "createFile"}
    /\ r.pc = "set"
    /\ IF ok
       THEN /\ ledger' = [ledger EXCEPT ![r.id] =
                            createRecording(r.id, r.title, r.folder, r.size,
                                            r.gcsPath, clock)]
            /\ viewsDone' = [viewsDone EXCEPT ![r.id] = 0]
            /\ signed' = IF r.kind = "createSigned" THEN signed \cup {r.id} ELSE signed
            /\ Slot(h, IF r.kind = "createFile"
                       THEN [Idle EXCEPT !.kind = "bg", !.pc = "markUploading",
                                         !.id = r.id, !.folder = r.folder,
                                         !.size = r.size]
                       ELSE Idle, TRUE)
            /\ Respond(r, "200", 0)
       ELSE /\ UNCHANGED <<ledger, signed, viewsDone>>
            /\ Return(h, "200")
    /\ UNCHANGED <<settings, gcs, drive, ops, used, clock, clientVars>>

\* createRecording (a set(): it replaces whatever document has that id), then
\* the response; the create-with-file handler starts uploadInBackground before
\* it answers, and that upload goes on in the same slot
CreateSet(h, ok) ==
    LET r == hs[h] IN
    /\ r.kind \in {"createJson", "createSigned", "createFile"}
    /\ r.pc = "set"
    /\ IF ok
       THEN /\ ledger' = [ledger EXCEPT ![r.id] =
                            createRecording(r.id, r.title, r.folder, r.size,
                                            r.gcsPath, clock)]
            /\ viewsDone' = [viewsDone EXCEPT ![r.id] = 0]
            /\ signed' = IF r.kind = "createSigned" THEN signed \cup {r.id} ELSE signed
            /\ Slot(h, IF r.kind = "createFile"
                       THEN [Idle EXCEPT !.kind = "bg", !.pc = "markUploading",
                                         !.id = r.id, !.folder = r.folder,
                                         !.size = r.size]
                       ELSE Idle, TRUE)
            /\ Respond(r, "200", 0)
       ELSE /\ UNCHANGED <<ledger, signed, viewsDone>>
            /\ Return(h, "500")
    /\ UNCHANGED <<settings, gcs, drive, ops, used, clock, clientVars>>

\* the handlers that forward a payload to Drive: direct upload by id, the
\* query-parameter upload, the transfer trigger, uploadInBackground
Uploaders == {"upload", "uploadQ", "transfer", "bg"}

\* ------------------------------------------------------- Drive collaborator
\* drive.files.create: a new file, private until permissions.create
\* (owner: the recording whose handler made the put)
DriveCreate(owner, folder) ==
    Append(drive, [owner |-> owner, folder |-> folder, public |-> FALSE,
                   present |-> TRUE])

\* variant: a failing permissions.create is passed over
uploadToDriveResumable_permOptional(h, ok, next) ==
    LET r == hs[h]
        there == r.fileId \in 1..Len(drive) /\ drive[r.fileId].present
    IN
    /\ r.pc \in {"create", "perm", "info"}
    /\ IF r.pc = "create"
       THEN /\ drive' = IF ok THEN DriveCreate(r.id, r.folder) ELSE drive
            /\ Go(h, IF ok THEN [r EXCEPT !.pc = "perm", !.fileId = Len(drive) + 1]
                     ELSE Throw(r))
       ELSE IF r.pc = "perm"
       THEN /\ drive' = IF ok /\ there
                        THEN [drive EXCEPT ![r.fileId].public = TRUE] ELSE drive
            /\ Go(h, [r EXCEPT !.pc = "info"])
       ELSE /\ drive' = drive
            /\ Go(h, IF ok /\ there THEN [r EXCEPT !.pc = next] ELSE Throw(r))

\* the three awaits of uploadToDriveResumable / transferFromGcsToDrive:
\* files.create, permissions.create, files.get.  A failing call throws; after
\* files.get the handler goes on at `next`
uploadToDriveResumable(h, ok, next) ==
    LET r == hs[h]
        there == r.fileId \in 1..Len(drive) /\ drive[r.fileId].present
    IN
    /\ r.pc \in {"create", "perm", "info"}
    /\ IF r.pc = "create"
       THEN /\ drive' = IF ok THEN DriveCreate(r.id, r.folder) ELSE drive
            /\ Go(h, IF ok THEN [r EXCEPT !.pc = "perm", !.fileId = Len(drive) + 1]
                     ELSE Throw(r))
       ELSE IF r.pc = "perm"
       THEN /\ drive' = IF ok /\ there
                        THEN [drive EXCEPT ![r.fileId].public = TRUE] ELSE drive
            /\ Go(h, IF ok /\ there THEN [r EXCEPT !.pc = "info"] ELSE Throw(r))
       ELSE /\ drive' = drive
            /\ Go(h, IF ok /\ there THEN [r EXCEPT !.pc = next] ELSE Throw(r))

\* Drive steps of the three uploading handlers
Forward(h, ok) ==
    /\ hs[h].kind \in Uploaders
    /\ uploadToDriveResumable(h, ok, IF hs[h].kind = "transfer" THEN "gcsDelete"
                                     ELSE "markReady")
    /\ UNCHANGED <<ledger, settings, gcs, signed, ops, used, viewsDone, clock, clientVars>>

\* ------------------------------------------------------ ledger writes
\* `await updateRecording(id, { status: 'uploading' })` of the direct upload,
\* the query-parameter upload, the transfer trigger and uploadInBackground;
\* `marked` records that the handler is past this write
MarkUploading(h, ok) ==
    LET r == hs[h] IN
    /\ r.kind \in Uploaders
    /\ r.pc = "markUploading"
    /\ TryUpdate(h, ok, [status |-> "uploading"],
                 [r EXCEPT !.marked = TRUE,
                           !.pc = IF r.kind = "transfer" THEN "download"
                                  ELSE IF r.kind = "upload" /\ r.size = 0 THEN "emptyErr"
                                  ELSE "create"])
    /\ UNCHANGED <<settings, gcs, drive, signed, response, ops, used, viewsDone, clock, clientVars>>

\* variant: the direct upload's final write leaves fileSize out
ReadyUpdates_noSize(r) ==
    IF r.kind = "transfer"
    THEN [driveFileId |-> r.fileId, status |-> "ready", gcsPath |-> ""]
    ELSE [driveFileId |-> r.fileId, status |-> "ready"]

\* variant: the transfer's final write leaves gcsPath as it was
ReadyUpdates_keepPath(r) ==
    IF r.kind = "upload"
    THEN [driveFileId |-> r.fileId, status |-> "ready", fileSize |-> r.size]
    ELSE [driveFileId |-> r.fileId, status |-> "ready"]

\* the partial fields of the final updateRecording of each handler
ReadyUpdates(r) ==
    IF r.kind = "upload"
    THEN [driveFileId |-> r.fileId, status |-> "ready", fileSize |-> r.size]
    ELSE IF r.kind = "transfer"
    THEN [driveFileId |-> r.fileId, status |-> "ready", gcsPath |-> ""]
    ELSE [driveFileId |-> r.fileId, status |-> "ready"]

\* final write, then the success response carrying result.fileId
\* (uploadInBackground has answered already and only logs)
MarkReady(h, ok) ==
    LET r == hs[h] IN
    /\ r.kind \in Uploaders
    /\ r.pc = "markReady"
    /\ TryUpdate(h, ok, ReadyUpdates(r), Idle)
    /\ IF CanUpdate(r.id, ok) /\ r.kind # "bg"
       THEN Respond(r, "200", r.fileId)
       ELSE UNCHANGED response
    /\ UNCHANGED <<settings, gcs, drive, signed, ops, used, viewsDone, clock, clientVars>>

\* the handlers whose catch block writes status error
WritesError(kind) == kind \in {"upload", "transfer", "bg"}

\* catch block: best-effort updateRecording(id, { status: 'error' }); its own
\* failure is swallowed (upload, transfer) or ends the background task.  The
\* catch block of the query-parameter upload only answers 500
Catch(h, ok) ==
    LET r == hs[h]
        writes == WritesError(r.kind) /\ CanUpdate(r.id, ok)
    IN
    /\ r.kind \in Uploaders
    /\ r.pc = "catch"
    /\ ledger' = IF writes
                 THEN [ledger EXCEPT ![r.id] = updateRecording(@, [status |-> "error"], clock)]
                 ELSE ledger
    /\ Slot(h, Idle, writes)
    /\ IF r.kind # "bg" THEN Respond(r, "500", 0)
       ELSE IF CanUpdate(r.id, ok) THEN UNCHANGED response
       ELSE Respond(r, "UnhandledRejection", 0)
    /\ UNCHANGED <<settings, gcs, drive, signed, ops, used, viewsDone, clock, clientVars>>

\* ------------------------------------- PUT /api/upload/[id]: direct upload
UploadStart(h, id, size) ==
    Request(h, [Idle EXCEPT !.kind = "upload", !.pc = "get", !.id = id,
                            !.size = size])

\* PUT /api/upload?id=...: the query-parameter upload starts at getSettings,
\* without loading the recording
UploadQStart(h, id, size) ==
    Request(h, [Idle EXCEPT !.kind = "uploadQ", !.pc = "settings", !.id = id,
                            !.size = size])

\* getRecording, 404 when absent
UploadGet(h, ok) ==
    LET r == hs[h] IN
    /\ r.kind = "upload" /\ r.pc = "get"
    /\ IF ~ok THEN Go(h, Throw(r))
       ELSE IF ~ledger[r.id].exists THEN Return(h, "404 NotFound")
       ELSE Go(h, [r EXCEPT !.pc = "settings"])
    /\ UNCHANGED <<ledger, settings, gcs, drive, signed, ops, used, viewsDone, clock, clientVars>>

\* getSettings, 400 when no folder is configured; the folder used for the
\* put is the one read here
UploadSettings(h, ok) ==
    LET r == hs[h] IN
    /\ r.kind \in {"upload", "uploadQ"} /\ r.pc = "settings"
    /\ IF ~ok THEN Go(h, Throw(r))
       ELSE IF settings = "" THEN Return(h, "400 Misconfigured")
       ELSE Go(h, [r EXCEPT !.pc = "markUploading", !.folder = settings])
    /\ UNCHANGED <<ledger, settings, gcs, drive, signed, ops, used, viewsDone, clock, clientVars>>

\* empty body: updateRecording(id, { status: 'error' }) inside the try, 400
UploadEmpty(h, ok) ==
    LET r == hs[h] IN
    /\ r.kind = "upload" /\ r.pc = "emptyErr"
    /\ TryUpdate(h, ok, [status |-> "error"], Idle)
    /\ IF CanUpdate(r.id, ok) THEN Respond(r, "400 EmptyPayload", 0)
       ELSE UNCHANGED response
    /\ UNCHANGED <<settings, gcs, drive, signed, ops, used, viewsDone, clock, clientVars>>

\* ---------------------- POST /api/upload/[id]/transfer: transfer trigger
TransferStart(h, id) ==
    Request(h, [Idle EXCEPT !.kind = "transfer", !.pc = "get", !.id = id])

\* variant: a recording in error is turned away like one without gcsPath
TransferAdmit_errorFinal(doc) ==
    IF ~doc.exists THEN "404 NotFound"
    ELSE IF doc.gcsPath = "" \/ doc.status = "error" THEN "400 MissingUpload"
    ELSE ""

\* variant: the trigger does not look at gcsPath
TransferAdmit_anyPath(doc) ==
    IF ~doc.exists THEN "404 NotFound" ELSE ""

\* the trigger's decision on the document it loaded: "" admits the transfer
TransferAdmit(doc) ==
    IF ~doc.exists THEN "404 NotFound"
    ELSE IF doc.gcsPath = "" THEN "400 MissingUpload"
    ELSE ""

TransferGet(h, ok) ==
    LET r == hs[h]
        doc == ledger[r.id]
    IN
    /\ r.kind = "transfer" /\ r.pc = "get"
    /\ IF ~ok THEN Go(h, Throw(r))
       ELSE IF TransferAdmit(doc) # "" THEN Return(h, TransferAdmit(doc))
       ELSE Go(h, [r EXCEPT !.pc = "exists", !.gcsPath = doc.gcsPath,
                            !.saw = doc.status])
    /\ UNCHANGED <<ledger, settings, gcs, drive, signed, ops, used, viewsDone, clock, clientVars>>

\* variant: the existence check answers yes for every path
checkGcsFile_always(path) == TRUE

\* checkGcsFile(recording.gcsPath)
checkGcsFile(path) == path \in gcs

TransferExists(h, ok) ==
    LET r == hs[h] IN
    /\ r.kind = "transfer" /\ r.pc = "exists"
    /\ Go(h, IF ~ok THEN Throw(r)
             ELSE IF checkGcsFile(r.gcsPath) THEN [r EXCEPT !.pc = "settings"]
             ELSE [r EXCEPT !.pc = "nfErr"])
    /\ UNCHANGED <<ledger, settings, gcs, drive, signed, ops, used, viewsDone, clock, clientVars>>

\* holding object absent: updateRecording(id, { status: 'error' }), 404
TransferNotFound(h, ok) ==
    LET r == hs[h] IN
    /\ r.kind = "transfer" /\ r.pc = "nfErr"
    /\ TryUpdate(h, ok, [status |-> "error"], Idle)
    /\ IF CanUpdate(r.id, ok) THEN Respond(r, "404 UploadNotFound", 0)
       ELSE UNCHANGED response
    /\ UNCHANGED <<settings, gcs, drive, signed, ops, used, viewsDone, clock, clientVars>>

TransferSettings(h, ok) ==
    LET r == hs[h] IN
    /\ r.kind = "transfer" /\ r.pc = "settings"
    /\ IF ~ok THEN Go(h, Throw(r))
       ELSE IF settings = "" THEN Return(h, "400 Misconfigured")
       ELSE Go(h, [r EXCEPT !.pc = "markUploading", !.folder = settings])
    /\ UNCHANGED <<ledger, settings, gcs, drive, signed, ops, used, viewsDone, clock, clientVars>>

\* transferFromGcsToDrive: file.download() throws when the object is gone
TransferDownload(h, ok) ==
    LET r == hs[h] IN
    /\ r.kind = "transfer" /\ r.pc = "download"
    /\ Go(h, IF ok /\ r.gcsPath \in gcs THEN [r EXCEPT !.pc = "create"]
             ELSE Throw(r))
    /\ UNCHANGED <<ledger, settings, gcs, drive, signed, ops, used, viewsDone, clock, clientVars>>

\* transferFromGcsToDrive: try { file.delete() } catch { warn }
TransferGcsDelete(h, ok) ==
    LET r == hs[h] IN
    /\ r.kind = "transfer" /\ r.pc = "gcsDelete"
    /\ gcs' = IF ok THEN gcs \ {r.gcsPath} ELSE gcs
    /\ Go(h, [r EXCEPT !.pc = "markReady"])
    /\ UNCHANGED <<ledger, settings, drive, signed, ops, used, viewsDone, clock, clientVars>>

\* ------------------------------------ PATCH /api/recordings/[id]: rename
RenameStart(h, id, body) ==
    Request(h, [Idle EXCEPT !.kind = "rename", !.pc = "get", !.id = id,
                            !.body = body])

\* variant: status may be set by a PATCH as well
allowedUpdates_status == {"title", "status"}

\* const allowedUpdates = ['title']
allowedUpdates == {"title"}

\* the loop that copies the allowed keys present in the body into `updates`
PatchUpdates(body) ==
    [key \in allowedUpdates \cap DOMAIN body |-> body[key]]

RenameGet(h, ok) ==
    LET r == hs[h] IN
    /\ r.kind = "rename" /\ r.pc = "get"
    /\ IF ~ok THEN Return(h, "500")
       ELSE IF ~ledger[r.id].exists THEN Return(h, "404 NotFound")
       ELSE Go(h, [r EXCEPT !.pc = "update"])
    /\ UNCHANGED <<ledger, settings, gcs, drive, signed, ops, used, viewsDone, clock, clientVars>>

\* updateRecording(id, updates), then the document is read again and returned
RenameUpdate(h, ok) ==
    LET r == hs[h] IN
    /\ r.kind = "rename" /\ r.pc = "update"
    /\ ledger' = IF CanUpdate(r.id, ok)
                 THEN [ledger EXCEPT ![r.id] =
                         updateRecording(@, PatchUpdates(r.body), clock)]
                 ELSE ledger
    /\ Slot(h, Idle, CanUpdate(r.id, ok))
    /\ Respond(r, IF CanUpdate(r.id, ok) THEN "200" ELSE "500", 0)
    /\ UNCHANGED <<settings, gcs, drive, signed, ops, used, viewsDone, clock, clientVars>>

\* --------------------------------- GET /api/upload/[id]: status check
StatusStart(h, id) ==
    Request(h, [Idle EXCEPT !.kind = "status", !.pc = "get", !.id = id])

StatusGet(h, ok) ==
    LET r == hs[h] IN
    /\ r.kind = "status" /\ r.pc = "get"
    /\ Slot(h, Idle, FALSE)
    /\ IF ~ok THEN Respond(r, "500", 0)
       ELSE IF ~ledger[r.id].exists THEN Respond(r, "404 NotFound", 0)
       ELSE Respond(r, ledger[r.id].status, ledger[r.id].driveFileId)
    /\ UNCHANGED <<ledger, settings, gcs, drive, signed, ops, used, viewsDone, clock, clientVars>>

\* ------------------- /v/[id] (VideoPage): a resolution of the share path
\* variant: the player shows the spinner for a failed recording
VideoPlayer_spinner(status, fileId) ==
    IF status = "ready" /\ fileId # 0 THEN "stream" ELSE "polling"

\* what VideoPlayer puts in the video container for the recording it is given
VideoPlayer(status, fileId) ==
    IF status = "ready" /\ fileId # 0 THEN "stream"
    ELSE IF status = "error" THEN "failed"
    ELSE "polling"

ViewStart(h, id) ==
    Request(h, [Idle EXCEPT !.kind = "view", !.pc = "get", !.id = id])

ViewGet(h, ok) ==
    LET r == hs[h] IN
    /\ r.kind = "view" /\ r.pc = "get"
    /\ IF ~ok THEN Return(h, "500")
       ELSE IF ~ledger[r.id].exists THEN Return(h, "404 NotFound")
       ELSE Go(h, [r EXCEPT !.pc = "txGet", !.saw = ledger[r.id].status,
                            !.fileId = ledger[r.id].driveFileId])
    /\ UNCHANGED <<ledger, settings, gcs, drive, signed, ops, used, viewsDone, clock, clientVars>>

\* incrementViewCount, inside runTransaction: transaction.get(docRef)
incrementViewCountGet(h, ok) ==
    LET r == hs[h] IN
    /\ r.kind = "view" /\ r.pc = "txGet"
    /\ IF ~ok THEN Return(h, "500")
       ELSE IF ~ledger[r.id].exists THEN Return(h, VideoPlayer(r.saw, r.fileId))
       ELSE Go(h, [r EXCEPT !.pc = "txCommit", !.dirty = FALSE,
                            !.cnt = ledger[r.id].viewCount])
    /\ UNCHANGED <<ledger, settings, gcs, drive, signed, ops, used, viewsDone, clock, clientVars>>

\* variant: a plain read-then-write, committed whatever happened in between
TxCommits_blind(r) == TRUE

\* the commit of the transaction applies the buffered update only when the
\* document was not written since it was read; otherwise the body runs again
TxCommits(r) == ~r.dirty

incrementViewCountCommit(h, ok) ==
    LET r == hs[h] IN
    /\ r.kind = "view" /\ r.pc = "txCommit"
    /\ IF ~ok
       THEN /\ ledger' = ledger
            /\ viewsDone' = viewsDone
            /\ Return(h, "500")
       ELSE IF TxCommits(r)
       THEN /\ ledger' = [ledger EXCEPT ![r.id] =
                            updateRecording(@, [viewCount |-> r.cnt + 1], clock)]
            /\ viewsDone' = [viewsDone EXCEPT ![r.id] = @ + 1]
            /\ Slot(h, Idle, TRUE)
            /\ Respond(r, VideoPlayer(r.saw, r.fileId), 0)
       ELSE /\ ledger' = ledger
            /\ viewsDone' = viewsDone
            /\ Go(h, [r EXCEPT !.pc = "txGet", !.dirty = FALSE, !.cnt = 0])
    /\ UNCHANGED <<settings, gcs, drive, signed, ops, used, clock, clientVars>>

\* --------------------------------- DELETE /api/recordings/[id]
DeleteStart(h, id) ==
    Request(h, [Idle EXCEPT !.kind = "delete", !.pc = "get", !.id = id])

DeleteGet(h, ok) ==
    LET r == hs[h] IN
    /\ r.kind = "delete" /\ r.pc = "get"
    /\ IF ~ok THEN Return(h, "500")
       ELSE IF ~ledger[r.id].exists THEN Return(h, "404 NotFound")
       ELSE IF ledger[r.id].driveFileId # 0
       THEN Go(h, [r EXCEPT !.pc = "driveDelete", !.fileId = ledger[r.id].driveFileId])
       ELSE Go(h, [r EXCEPT !.pc = "delete"])
    /\ UNCHANGED <<ledger, settings, gcs, drive, signed, ops, used, viewsDone, clock, clientVars>>

\* variant: a failing deleteFromDrive ends the request with 500
DeleteDrive_fatal(h, ok) ==
    LET r == hs[h] IN
    /\ r.kind = "delete" /\ r.pc = "driveDelete"
    /\ drive' = IF ok THEN [drive EXCEPT ![r.fileId].present = FALSE] ELSE drive
    /\ IF ok THEN Go(h, [r EXCEPT !.pc = "delete"]) ELSE Return(h, "500")
    /\ UNCHANGED <<ledger, settings, gcs, signed, ops, used, viewsDone, clock, clientVars>>

\* try { deleteFromDrive(recording.driveFileId) } catch { log }
DeleteDrive(h, ok) ==
    LET r == hs[h] IN
    /\ r.kind = "delete" /\ r.pc = "driveDelete"
    /\ drive' = IF ok THEN [drive EXCEPT ![r.fileId].present = FALSE] ELSE drive
    /\ Go(h, [r EXCEPT !.pc = "delete"])
    /\ UNCHANGED <<ledger, settings, gcs, signed, ops, used, viewsDone, clock, clientVars>>

\* deleteRecording(id)
DeleteLedger(h, ok) ==
    LET r == hs[h] IN
    /\ r.kind = "delete" /\ r.pc = "delete"
    /\ ledger' = IF ok THEN [ledger EXCEPT ![r.id] = NoDoc] ELSE ledger
    /\ Slot(h, Idle, ok)
    /\ Respond(r, IF ok THEN "200" ELSE "500", 0)
    /\ UNCHANGED <<settings, gcs, drive, signed, ops, used, viewsDone, clock, clientVars>>

\* ------------------------------------------------------ specification
\* Db, Remote: the outcomes a call to Firestore, and a call to GCS or Drive,
\* may have: TRUE it succeeds, FALSE it throws.  Fs: the folders a user saves.
NextWith(Db, Remote, Fs) ==
    \/ \E f \in Fs : saveSettings(f)
    \/ \E id \in Ids : GcsClientPut(id)
    \/ \E h \in Slots, k \in {"createJson", "createSigned", "createFile"},
          t \in Titles, z \in Sizes, id \in Ids : CreateStart(h, k, t, z, id)
    \/ \E h \in Slots, ok \in Db : CreateSettings(h, ok)
    \/ \E h \in Slots, ok \in Remote : CreateSign(h, ok)
    \/ \E h \in Slots, ok \in Db : CreateSet(h, ok)
    \/ \E h \in Slots, id \in Ids, z \in Sizes : UploadStart(h, id, z)
    \/ \E h \in Slots, id \in Ids, z \in Sizes : UploadQStart(h, id, z)
    \/ \E h \in Slots, ok \in Db : UploadGet(h, ok)
    \/ \E h \in Slots, ok \in Db : UploadSettings(h, ok)
    \/ \E h \in Slots, ok \in Db : UploadEmpty(h, ok)
    \/ \E h \in Slots, ok \in Db : MarkUploading(h, ok)
    \/ \E h \in Slots, ok \in Remote : Forward(h, ok)
    \/ \E h \in Slots, ok \in Db : MarkReady(h, ok)
    \/ \E h \in Slots, ok \in Db : Catch(h, ok)
    \/ \E h \in Slots, id \in Ids : TransferStart(h, id)
    \/ \E h \in Slots, ok \in Db : TransferGet(h, ok)
    \/ \E h \in Slots, ok \in Remote : TransferExists(h, ok)
    \/ \E h \in Slots, ok \in Db : TransferNotFound(h, ok)
    \/ \E h \in Slots, ok \in Db : TransferSettings(h, ok)
    \/ \E h \in Slots, ok \in Remote : TransferDownload(h, ok)
    \/ \E h \in Slots, ok \in Remote : TransferGcsDelete(h, ok)
    \/ \E h \in Slots, id \in Ids, b \in PatchBodies : RenameStart(h, id, b)
    \/ \E h \in Slots, ok \in Db : RenameGet(h, ok)
    \/ \E h \in Slots, ok \in Db : RenameUpdate(h, ok)
    \/ \E h \in Slots, id \in Ids : StatusStart(h, id)
    \/ \E h \in Slots, ok \in Db : StatusGet(h, ok)
    \/ \E h \in Slots, id \in Ids : ViewStart(h, id)
    \/ \E h \in Slots, ok \in Db : ViewGet(h, ok)
    \/ \E h \in Slots, ok \in Db : incrementViewCountGet(h, ok)
    \/ \E h \in Slots, ok \in Db : incrementViewCountCommit(h, ok)
    \/ \E h \in Slots, id \in Ids : DeleteStart(h, id)
    \/ \E h \in Slots, ok \in Db : DeleteGet(h, ok)
    \/ \E h \in Slots, ok \in Remote : DeleteDrive(h, ok)
    \/ \E h \in Slots, ok \in Db : DeleteLedger(h, ok)

\* collaborators may fail at any call
Next == NextWith(BOOLEAN, BOOLEAN, Folders)

\* collaborators never fail by themselves (a call still throws when the
\* document or object it addresses is gone)
NextReliable == NextWith({TRUE}, {TRUE}, Folders)

Spec == Init /\ [][Next]_vars

SpecReliable == Init /\ [][NextReliable]_vars

\* Firestore is available throughout; GCS and Drive may fail at any call
NextStoreUp == NextWith({TRUE}, BOOLEAN, Folders)

SpecStoreUp == Init /\ [][NextStoreUp]_vars

\* no collaborator failure; Settings may be edited to another folder and the
\* clock advances
NextEdit == Tick \/ NextWith({TRUE}, {TRUE}, MoreFolders)

SpecEdit == Init /\ [][NextEdit]_vars

\* ---------------------------------------- GET /api/stream/[id]
StreamStart(h, id) ==
    Request(h, [Idle EXCEPT !.kind = "stream", !.pc = "get", !.id = id])

\* getRecording, then the two early answers
StreamGet(h, ok) ==
    LET r == hs[h] IN
    /\ r.kind = "stream" /\ r.pc = "get"
    /\ IF ~ok THEN Return(h, "500")
       ELSE IF ~ledger[r.id].exists THEN Return(h, "404 NotFound")
       ELSE IF ledger[r.id].driveFileId = 0 THEN Return(h, "404 NotUploaded")
       ELSE Go(h, [r EXCEPT !.pc = "fileInfo", !.saw = ledger[r.id].status,
                            !.fileId = ledger[r.id].driveFileId])
    /\ UNCHANGED <<ledger, settings, gcs, drive, signed, ops, used, viewsDone, clock, clientVars>>

\* drive.files.get for size and mimeType, then drive.files.get with
\* alt: 'media'; each throws when the call fails or the file is gone, and
\* the second is followed by the response that carries the stream
StreamDrive(h, ok) ==
    LET r == hs[h]
        there == r.fileId \in 1..Len(drive) /\ drive[r.fileId].present
    IN
    /\ r.kind = "stream" /\ r.pc \in {"fileInfo", "media"}
    /\ IF ~(ok /\ there) THEN Return(h, "500")
       ELSE IF r.pc = "fileInfo" THEN Go(h, [r EXCEPT !.pc = "media"])
       ELSE /\ Slot(h, Idle, FALSE)
            /\ Respond(r, "stream", r.fileId)
    /\ UNCHANGED <<ledger, settings, gcs, drive, signed, ops, used, viewsDone, clock, clientVars>>

\* the handlers of the upload state machine together with the streaming
\* endpoint; no collaborator fails by itself
NextStream ==
    \/ NextWith({TRUE}, {TRUE}, Folders)
    \/ \E h \in Slots, id \in Ids : StreamStart(h, id)
    \/ \E h \in Slots, ok \in {TRUE} : StreamGet(h, ok)
    \/ \E h \in Slots, ok \in {TRUE} : StreamDrive(h, ok)

SpecStream == Init /\ [][NextStream]_vars

\* ----------------------------------------------- a repeated id
\* a create for which uuidv4().slice(0, 8) gives a value it gave before: the
\* 32 bits of the id are drawn at random and nothing checks them against
\* the ledger
CreateAgain(h, kind, title, size, id) ==
    /\ id \in used
    /\ UNCHANGED used
    /\ Accept(h, [Idle EXCEPT !.kind = kind, !.pc = "settings", !.id = id,
                              !.title = title, !.size = size])

NextCollide ==
    \/ NextWith({TRUE}, {TRUE}, Folders)
    \/ \E h \in Slots, k \in {"createJson", "createSigned", "createFile"},
          t \in Titles, z \in Sizes, id \in Ids : CreateAgain(h, k, t, z, id)

SpecCollide == Init /\ [][NextCollide]_vars

\* ------------------------------------------- the ledger update by itself
\* stored documents a call of updateRecording may find
StoredDocs ==
    {NoDoc} \cup
    {[createRecording(id, t, "F1", 0, IF signedUrl THEN GcsPathOf(id) ELSE "", now)
        EXCEPT !.status = st] :
        id \in Ids, t \in Titles, signedUrl \in BOOLEAN,
        now \in 0..MaxClock, st \in {"processing", "uploading", "ready", "error"}}

\* partial fields passed as `updates: Partial<Recording>`
PartialFields ==
    {[title |-> "Notes"], [status |-> "error"],
     [driveFileId |-> 1, status |-> "ready", gcsPath |-> ""],
     [createdAt |-> 9], [id |-> "other"], [updatedAt |-> 9],
     [id |-> "other", title |-> "Notes", createdAt |-> 9]}

InitLedger ==
    /\ ledger \in [Ids -> StoredDocs]
    /\ clock \in 0..MaxClock
    /\ settings = ""
    /\ gcs = {}
    /\ drive = <<>>
    /\ signed = {}
    /\ hs = [h \in Slots |-> Idle]
    /\ response = NoResponse
    /\ used = {}
    /\ viewsDone = [id \in Ids |-> 0]
    /\ ops = 0
    /\ poller = Unmounted
    /\ session = NoSession
    /\ tracks = [t \in Slots |-> NoTrack]
    /\ accepted = NoEvents
    /\ recorder = NoRecorder
    /\ inflight = <<>>
    /\ player = NoPlayer
    /\ call = NoCall

\* one call updateRecording(id, updates): update() rejects with NOT_FOUND
\* when the document is absent
LedgerUpdate(id, updates) ==
    /\ ops < MaxOps
    /\ ops' = ops + 1
    /\ IF ledger[id].exists
       THEN /\ ledger' = [ledger EXCEPT ![id] = updateRecording(@, updates, clock)]
            /\ response' = [kind |-> "updateRecording", id |-> id,
                            code |-> "resolved", driveFileId |-> 0]
       ELSE /\ ledger' = ledger
            /\ response' = [kind |-> "updateRecording", id |-> id,
                            code |-> "NOT_FOUND", driveFileId |-> 0]
    /\ UNCHANGED <<settings, gcs, drive, signed, hs, used, viewsDone, clock, clientVars>>

NextLedger ==
    \/ Tick
    \/ \E id \in Ids, u \in PartialFields : LedgerUpdate(id, u)

SpecLedger == InitLedger /\ [][NextLedger]_vars

\* ----------------------------------- the uploading client's status poller
\* what one poll of GET /api/upload/[id] may bring: a body with a status, an
\* error body without one (404, 500), or a fetch / json() that throws
PollResults == {"processing", "uploading", "ready", "error", "noStatus", "throws"}

\* the component is mounted with status 'processing'; its effect has run
Mounted == [status |-> "processing", pollCount |-> 0, polling |-> TRUE]

\* VideoPlayer as VideoPage renders it for a recording of status `s`:
\* useState(recording.status); the polling effect returns at once for ready
\* and error.  fetches: parity of the number of polls made (the component
\* itself keeps no count)
PlayerFor(s) ==
    [status |-> s, polling |-> s \notin {"ready", "error"}, fetches |-> 0]

InitClients ==
    /\ ledger = [id \in Ids |-> NoDoc]
    /\ settings = ""
    /\ gcs = {}
    /\ drive = <<>>
    /\ signed = {}
    /\ hs = [h \in Slots |-> Idle]
    /\ response = NoResponse
    /\ used = {}
    /\ viewsDone = [id \in Ids |-> 0]
    /\ ops = 0
    /\ clock = 0
    /\ poller = Mounted
    /\ session = NoSession
    /\ tracks = [t \in Slots |-> NoTrack]
    /\ accepted = NoEvents
    /\ recorder = NoRecorder
    /\ inflight = <<>>
    /\ \E s \in {"processing", "uploading", "ready", "error"} :
          player = PlayerFor(s)
    /\ call = NoCall

\* the status the component holds after checkStatus got `res` as its
\* pollCount-th poll: setStatus(data.status), then the ceiling test; both are
\* skipped when the fetch threw
checkStatus(status, pollCount, res) ==
    IF res = "throws" THEN status
    ELSE IF pollCount >= maxPolls /\ res # "ready" THEN "error"
    ELSE IF res = "noStatus" THEN status
    ELSE res

\* one run of checkStatus (at mount, then every 2000 ms), and the effect that
\* follows a change of status: it stops on ready and error, and otherwise
\* starts over with pollCount = 0.  No write of a handler sets a status back
\* to processing, so that answer comes only while it was the answer before.
\* pollCount is counted up to maxPolls + 2 and then alternates between the two values above maxPolls: every test of
\* it gives the same result for all of them
Poll(res) ==
    LET count == IF poller.pollCount = maxPolls + 2 THEN maxPolls + 1
                 ELSE poller.pollCount + 1
        status == checkStatus(poller.status, count, res)
    IN
    /\ poller.polling
    /\ res = "processing" => poller.status = "processing"
    /\ poller' = IF status = poller.status
                 THEN [poller EXCEPT !.pollCount = count]
                 ELSE [status |-> status, pollCount |-> 0,
                       polling |-> status \notin {"ready", "error"}]
    /\ UNCHANGED <<ledger, settings, gcs, drive, signed, hs, response, used,
                   viewsDone, ops, clock, player, call, session,
                   tracks, accepted, recorder, inflight>>

NextPoller == \E res \in PollResults : Poll(res)

\* --------------------------------------- the share-link viewer's poller
\* one run of VideoPlayer's checkStatus (every 3000 ms) on
\* GET /api/recordings/[id]: setStatus(data.recording.status) when the body
\* has a recording; a thrown fetch is logged
PlayerPoll(res) ==
    LET status == IF res \in {"noStatus", "throws"} THEN player.status ELSE res
    IN
    /\ player.polling
    /\ res = "processing" => player.status = "processing"
    /\ player' = [status |-> status,
                  polling |-> status \notin {"ready", "error"},
                  fetches |-> 1 - player.fetches]
    /\ UNCHANGED <<ledger, settings, gcs, drive, signed, hs, response, used,
                   viewsDone, ops, clock, poller, call, session,
                   tracks, accepted, recorder, inflight>>

NextPlayer == \E res \in PollResults : PlayerPoll(res)

\* setInterval keeps calling each checkStatus while its effect is in place
SpecClients ==
    /\ InitClients
    /\ [][NextPoller \/ NextPlayer]_vars
    /\ WF_vars(NextPoller) /\ WF_vars(NextPlayer)

\* ------------------------------------------- the Drive file name
\* strings are sequences of characters here
MaxTitleLen == 2                      \* characters of a title
IdLen == 2                            \* characters of an id (8 in the source)
TitleChars == {"a", "7", "_", "-"}    \* characters a title is made of
HexChars == {"a", "7"}                \* characters uuidv4() is made of

\* the character class [a-zA-Z0-9]
AlphaNumeric ==
    {"a", "b", "c", "d", "e", "f", "g", "h", "i", "j", "k", "l", "m", "n", "o", "p", "q", "r", "s", "t", "u", "v", "w", "x", "y", "z"} \cup
    {"A", "B", "C", "D", "E", "F", "G", "H", "I", "J", "K", "L", "M", "N", "O", "P", "Q", "R", "S", "T", "U", "V", "W", "X", "Y", "Z"} \cup
    {"0", "1", "2", "3", "4", "5", "6", "7", "8", "9"}

SeqsUpTo(S, n) == UNION {[1..k -> S] : k \in 0..n}

\* title.replace(/[^a-zA-Z0-9]/g, '_')
Sanitize(title) ==
    [i \in 1..Len(title) |-> IF title[i] \in AlphaNumeric THEN title[i] ELSE "_"]

\* the fileName each uploading handler passes to Drive:
\* `${title.replace(/[^a-zA-Z0-9]/g, '_')}_${id}.webm` in the direct upload,
\* the transfer and uploadInBackground, `recording_${recordingId}.webm` in
\* the query-parameter upload
fileName(kind, title, id) ==
    IF kind = "uploadQ"
    THEN <<"r", "e", "c", "o", "r", "d", "i", "n", "g", "_">> \o id
            \o <<".", "w", "e", "b", "m">>
    ELSE Sanitize(title) \o <<"_">> \o id \o <<".", "w", "e", "b", "m">>

\* two recordings and the handlers that will upload them
InitNames ==
    /\ ledger = [id \in Ids |-> NoDoc]
    /\ settings = ""
    /\ gcs = {}
    /\ drive = <<>>
    /\ signed = {}
    /\ hs = [h \in Slots |-> Idle]
    /\ response = NoResponse
    /\ used = {}
    /\ viewsDone = [id \in Ids |-> 0]
    /\ ops = 0
    /\ clock = 0
    /\ poller = Unmounted
    /\ session = NoSession
    /\ tracks = [t \in Slots |-> NoTrack]
    /\ accepted = NoEvents
    /\ recorder = NoRecorder
    /\ inflight = <<>>
    /\ player = NoPlayer
    /\ \E k1, k2 \in Uploaders, t1, t2 \in SeqsUpTo(TitleChars, MaxTitleLen),
          i1, i2 \in [1..IdLen -> HexChars] :
          call = [fn |-> "fileName", done |-> FALSE,
                  kind1 |-> k1, title1 |-> t1, id1 |-> i1, name1 |-> <<>>,
                  kind2 |-> k2, title2 |-> t2, id2 |-> i2, name2 |-> <<>>]

DeriveNames ==
    /\ call.fn = "fileName" /\ ~call.done
    /\ call' = [call EXCEPT !.done = TRUE,
                            !.name1 = fileName(call.kind1, call.title1, call.id1),
                            !.name2 = fileName(call.kind2, call.title2, call.id2)]
    /\ UNCHANGED <<ledger, settings, gcs, drive, signed, hs, response, used,
                   viewsDone, ops, clock, poller, player, session,
                   tracks, accepted, recorder, inflight>>

SpecNames == InitNames /\ [][DeriveNames]_vars

\* ------------------------------------ the byte range of a stream request
MaxFileSize == 12                     \* bytes of the Drive file

DigitChars == <<"0", "1", "2", "3", "4", "5", "6", "7", "8", "9">>

\* Number.prototype.toString() of an integer
RECURSIVE toString(_)
toString(n) ==
    IF n < 0 THEN <<"-">> \o toString(0 - n)
    ELSE IF n < 10 THEN <<DigitChars[n + 1]>>
    ELSE toString(n \div 10) \o <<DigitChars[(n % 10) + 1]>>

\* parseInt(s, 10) of a string of digits ("NaN" when it has none)
RECURSIVE parseInt(_)
parseInt(s) ==
    LET digit(c) == CHOOSE v \in 0..9 : DigitChars[v + 1] = c
        isDigit(c) == \E v \in 0..9 : DigitChars[v + 1] = c
    IN
    IF s = <<>> \/ ~isDigit(s[1]) THEN "NaN"
    ELSE IF Len(s) = 1 \/ ~isDigit(s[2]) THEN digit(s[1])
    ELSE LET k == CHOOSE k \in 1..Len(s) :
                     /\ \A i \in 1..k : isDigit(s[i])
                     /\ k = Len(s) \/ ~isDigit(s[k + 1])
         IN parseInt(SubSeq(s, 1, k - 1)) * 10 + digit(s[k])

\* s.replace(/bytes=/, ''): the first occurrence is taken out
replaceBytes(s) ==
    LET pat == <<"b", "y", "t", "e", "s", "=">>
        at == {i \in 1..Len(s) : i + 5 <= Len(s) /\ SubSeq(s, i, i + 5) = pat}
    IN
    IF at = {} THEN s
    ELSE LET i == CHOOSE i \in at : \A j \in at : i <= j
         IN SubSeq(s, 1, i - 1) \o SubSeq(s, i + 6, Len(s))

\* s.split('-')
RECURSIVE split(_)
split(s) ==
    LET at == {i \in 1..Len(s) : s[i] = "-"} IN
    IF at = {} THEN <<s>>
    ELSE LET i == CHOOSE i \in at : \A j \in at : i <= j
         IN <<SubSeq(s, 1, i - 1)>> \o split(SubSeq(s, i + 1, Len(s)))

\* variant: an open range ends at fileSize
rangeEnd_size(parts, fileSize) ==
    IF Len(parts) >= 2 /\ parts[2] # <<>> THEN parseInt(parts[2]) ELSE fileSize

\* const end = parts[1] ? parseInt(parts[1], 10) : fileSize - 1
rangeEnd(parts, fileSize) ==
    IF Len(parts) >= 2 /\ parts[2] # <<>> THEN parseInt(parts[2]) ELSE fileSize - 1

\* the status and headers of the response that carries the stream, for a
\* file of fileSize bytes and the Range header of the request ("none": the
\* request has no such header)
streamResponse(fileSize, rangeHeader) ==
    IF rangeHeader # "none"
    THEN LET parts == split(replaceBytes(rangeHeader))
             start == parseInt(parts[1])
             end == rangeEnd(parts, fileSize)
             chunkSize == end - start + 1
         IN [status |-> 206,
             ContentRange |-> <<"b", "y", "t", "e", "s", " ">> \o toString(start)
                                \o <<"-">> \o toString(end) \o <<"/">>
                                \o toString(fileSize),
             AcceptRanges |-> "bytes",
             ContentLength |-> toString(chunkSize)]
    ELSE [status |-> 200,
          ContentRange |-> "none",
          AcceptRanges |-> "bytes",
          ContentLength |-> toString(fileSize)]

\* the Range header a player sends for the bytes a..b ('bytes=a-' when open)
RangeHeader(a, b, open) ==
    <<"b", "y", "t", "e", "s", "=">> \o toString(a) \o <<"-">>
       \o (IF open THEN <<>> ELSE toString(b))

\* a request for a file of S bytes: no Range header, or one with
\* 0 <= a <= b < S, closed or open
InitRange ==
    /\ ledger = [id \in Ids |-> NoDoc]
    /\ settings = ""
    /\ gcs = {}
    /\ drive = <<>>
    /\ signed = {}
    /\ hs = [h \in Slots |-> Idle]
    /\ response = NoResponse
    /\ used = {}
    /\ viewsDone = [id \in Ids |-> 0]
    /\ ops = 0
    /\ clock = 0
    /\ poller = Unmounted
    /\ session = NoSession
    /\ tracks = [t \in Slots |-> NoTrack]
    /\ accepted = NoEvents
    /\ recorder = NoRecorder
    /\ inflight = <<>>
    /\ player = NoPlayer
    /\ \E S \in 1..MaxFileSize, a, b \in 0..(MaxFileSize - 1),
          form \in {"none", "closed", "open"} :
          /\ a <= b /\ b < S
          /\ form = "none" => a = 0 /\ b = S - 1
          /\ form = "open" => b = S - 1
          /\ call = [fn |-> "stream", done |-> FALSE, fileSize |-> S,
                     a |-> a, b |-> b, form |-> form,
                     rangeHeader |-> IF form = "none" THEN "none"
                                     ELSE RangeHeader(a, b, form = "open"),
                     result |-> "none"]

StreamRespond ==
    /\ call.fn = "stream" /\ ~call.done
    /\ call' = [call EXCEPT !.done = TRUE,
                            !.result = streamResponse(call.fileSize, call.rangeHeader)]
    /\ UNCHANGED <<ledger, settings, gcs, drive, signed, hs, response, used,
                   viewsDone, ops, clock, poller, player, session,
                   tracks, accepted, recorder, inflight>>

SpecRange == InitRange /\ [][StreamRespond]_vars

\* ----------------------------------- POST /api/analytics/track
MaxEvents == 3                        \* events tracked in one behaviour

\* const validEventTypes
validEventTypes ==
    {"video_started", "video_progress", "video_paused", "video_resumed",
     "video_seeked", "video_ended"}

\* eventType of a body: three valid types (the four left out are handled as
\* video_started is) and one that is not valid
EventTypes == {"video_started", "video_progress", "video_ended", "video_closed"}
Positions == {Undefined, 0, 3, 9}     \* currentTime of a body, in seconds
Durations == {Undefined, 6}           \* duration of a body, in seconds
RecordingDurations == {0, 8}          \* duration of the stored recording

Min(a, b) == IF a <= b THEN a ELSE b

Max(a, b) == IF a >= b THEN a ELSE b

\* Math.round of the quotient n / d of two integers, d > 0, n >= 0
Round(n, d) == (2 * n + d) \div (2 * d)

\* `duration || recording.duration`: 0 and undefined give way
videoDuration(duration, recordingDuration) ==
    IF duration = Undefined \/ duration = 0 THEN recordingDuration ELSE duration

\* variant: the rate is not capped
completionRate_uncapped(newMaxPosition, duration) ==
    Round(newMaxPosition * 100, duration)

\* Math.min(100, Math.round((newMaxPosition / videoDuration) * 100))
completionRate(newMaxPosition, duration) ==
    Min(100, Round(newMaxPosition * 100, duration))

\* the `updates` the handler builds from the session it loaded and the event
\* (a key that is not set keeps the session's value, as update() merges)
SessionUpdates(s, eventType, currentTime, duration, recordingDuration, now) ==
    LET vd == videoDuration(duration, recordingDuration)
        timed == currentTime # Undefined
    IN
    [exists |-> TRUE,
     events |-> s.events + 1,
     maxPosition |-> IF timed /\ currentTime > s.maxPosition
                     THEN currentTime ELSE s.maxPosition,
     completionRate |-> IF eventType = "video_ended" THEN 100
                        ELSE IF timed /\ vd > 0
                        THEN completionRate(Max(s.maxPosition, currentTime), vd)
                        ELSE s.completionRate,
     watchedSeconds |-> IF timed /\ eventType = "video_progress"
                        THEN Min(s.watchedSeconds + 5, vd)
                        ELSE s.watchedSeconds,
     endedAt |-> IF eventType = "video_ended" THEN now ELSE s.endedAt]

\* the keys of `updates` for an event
UpdatedKeys(eventType, currentTime, duration, recordingDuration, s) ==
    {"events"}
    \cup (IF currentTime # Undefined /\ currentTime > s.maxPosition
          THEN {"maxPosition"} ELSE {})
    \cup (IF eventType = "video_ended"
             \/ (currentTime # Undefined
                 /\ videoDuration(duration, recordingDuration) > 0)
          THEN {"completionRate"} ELSE {})
    \cup (IF currentTime # Undefined /\ eventType = "video_progress"
          THEN {"watchedSeconds"} ELSE {})
    \cup (IF eventType = "video_ended" THEN {"endedAt"} ELSE {})

\* one recording with its duration; no session yet
InitTrack ==
    /\ ledger = [id \in Ids |-> NoDoc]
    /\ settings = ""
    /\ gcs = {}
    /\ drive = <<>>
    /\ signed = {}
    /\ hs = [h \in Slots |-> Idle]
    /\ response = NoResponse
    /\ used = {}
    /\ viewsDone = [id \in Ids |-> 0]
    /\ ops = 0
    /\ clock = 0
    /\ poller = Unmounted
    /\ player = NoPlayer
    /\ session = NoSession
    /\ tracks = [t \in Slots |-> NoTrack]
    /\ accepted = NoEvents
    /\ recorder = NoRecorder
    /\ inflight = <<>>
    /\ \E d \in RecordingDurations :
          call = [fn |-> "track", recordingDuration |-> d]

TrackFrame ==
    UNCHANGED <<ledger, settings, gcs, drive, signed, hs, used, viewsDone,
                clock, poller, player, call, recorder, inflight>>

TrackRespond(code) ==
    response' = [kind |-> "track", id |-> "", code |-> code, driveFileId |-> 0]

\* the request arrives; a body with an eventType that is not valid is
\* answered 400 at once
TrackStart(t, eventType, currentTime, duration) ==
    /\ tracks[t].pc = "idle"
    /\ ops < MaxEvents
    /\ ops' = ops + 1
    /\ IF eventType \in validEventTypes
       THEN /\ tracks' = [tracks EXCEPT ![t] =
                            [NoTrack EXCEPT !.pc = "getRecording",
                                            !.eventType = eventType,
                                            !.currentTime = currentTime,
                                            !.duration = duration]]
            /\ UNCHANGED response
       ELSE /\ tracks' = tracks
            /\ TrackRespond("400")
    /\ UNCHANGED <<session, accepted>>
    /\ TrackFrame

\* await getRecording, then await trackAnalyticsEvent: the event is logged
TrackLog(t) ==
    /\ tracks[t].pc \in {"getRecording", "trackEvent"}
    /\ tracks' = [tracks EXCEPT ![t].pc =
                     IF @ = "getRecording" THEN "trackEvent" ELSE "sessionGet"]
    /\ UNCHANGED <<session, response, ops, accepted>>
    /\ TrackFrame

\* getOrCreateViewerSession: docRef.get(); an existing session is returned
TrackSessionGet(t) ==
    /\ tracks[t].pc = "sessionGet"
    /\ tracks' = [tracks EXCEPT ![t].pc = IF session.exists THEN "update"
                                          ELSE "sessionSet",
                                ![t].snap = IF session.exists THEN session
                                            ELSE [NoSession EXCEPT !.exists = TRUE]]
    /\ UNCHANGED <<session, response, ops, accepted>>
    /\ TrackFrame

\* getOrCreateViewerSession: docRef.set(newSession)
TrackSessionSet(t) ==
    /\ tracks[t].pc = "sessionSet"
    /\ session' = tracks[t].snap
    /\ tracks' = [tracks EXCEPT ![t].pc = "update"]
    /\ UNCHANGED <<response, ops, accepted>>
    /\ TrackFrame

\* updateViewerSession(sessionId, updates), then { success: true }
TrackUpdate(t) ==
    LET r == tracks[t]
        u == SessionUpdates(r.snap, r.eventType, r.currentTime, r.duration,
                            call.recordingDuration, clock)
        keys == UpdatedKeys(r.eventType, r.currentTime, r.duration,
                            call.recordingDuration, r.snap)
    IN
    /\ r.pc = "update"
    /\ session' = [f \in DOMAIN session |->
                      IF f \in keys THEN u[f] ELSE session[f]]
    /\ tracks' = [tracks EXCEPT ![t] = NoTrack]
    /\ TrackRespond("200")
    /\ accepted' = [count |-> accepted.count + 1,
                    largest |-> Max(accepted.largest, r.currentTime)]
    /\ UNCHANGED ops
    /\ TrackFrame

NextTrack ==
    \/ \E t \in Slots, e \in EventTypes, c \in Positions, d \in Durations :
          TrackStart(t, e, c, d)
    \/ \E t \in Slots : TrackLog(t)
    \/ \E t \in Slots : TrackSessionGet(t)
    \/ \E t \in Slots : TrackSessionSet(t)
    \/ \E t \in Slots : TrackUpdate(t)

SpecTrack == InitTrack /\ [][NextTrack]_vars

\* ------------------------------------------- getRecordingAnalytics
MaxSessions == 3                      \* viewer sessions of the recording

ViewerIds == {"v1", "v2"}             \* viewerId of a session
WatchedValues == {0, 5}               \* watchedSeconds of a session
MaxPositions == {0, 4, 7, 12}         \* maxPosition of a session
CompletionRates == {0, 100}           \* completionRate of a session

\* the viewer_sessions documents the query may return
SessionDocs ==
    [viewerId : ViewerIds, watchedSeconds : WatchedValues,
     maxPosition : MaxPositions, completionRate : CompletionRates]

\* sessions.reduce((sum, s) => sum + s[field], 0)
RECURSIVE reduceSum(_, _)
reduceSum(sessions, field) ==
    IF sessions = <<>> THEN 0
    ELSE sessions[1][field] + reduceSum(Tail(sessions), field)

\* Math.floor(session.maxPosition / 5) * 5
dropOffPoint(maxPosition) == (maxPosition \div 5) * 5

\* dropOffMap.set(point, (dropOffMap.get(point) || 0) + 1): a Map keeps its
\* entries in the order the keys were first set
mapSet(entries, point) ==
    IF \E i \in 1..Len(entries) : entries[i].time = point
    THEN [i \in 1..Len(entries) |->
             IF entries[i].time = point
             THEN [time |-> point, count |-> entries[i].count + 1]
             ELSE entries[i]]
    ELSE Append(entries, [time |-> point, count |-> 1])

\* sessions.forEach(session => ...) over the dropOffMap
RECURSIVE dropOffMap(_, _)
dropOffMap(sessions, entries) ==
    IF sessions = <<>> THEN entries
    ELSE dropOffMap(Tail(sessions),
                    mapSet(entries, dropOffPoint(sessions[1].maxPosition)))

\* one entry put at its place in a list sorted by time
RECURSIVE insertByTime(_, _)
insertByTime(sorted, e) ==
    IF sorted = <<>> THEN <<e>>
    ELSE IF e.time < sorted[1].time THEN <<e>> \o sorted
    ELSE <<sorted[1]>> \o insertByTime(Tail(sorted), e)

\* variant: the entries are left in the order of the Map
sortByTime_unsorted(entries) == entries

\* .sort((a, b) => a.time - b.time)
RECURSIVE sortByTime(_)
sortByTime(entries) ==
    IF entries = <<>> THEN <<>>
    ELSE insertByTime(sortByTime(Tail(entries)), entries[1])

\* getRecordingAnalytics, from the sessions the query returned
getRecordingAnalytics(sessions) ==
    IF Len(sessions) = 0
    THEN [totalViews |-> 0, uniqueViewers |-> 0, avgWatchTime |-> 0,
          avgCompletionRate |-> 0, totalWatchTime |-> 0, dropOffPoints |-> <<>>]
    ELSE LET totalWatchTime == reduceSum(sessions, "watchedSeconds")
         IN
         [totalViews |-> Len(sessions),
          uniqueViewers |->
             Cardinality({sessions[i].viewerId : i \in 1..Len(sessions)}),
          avgWatchTime |-> Round(totalWatchTime, Len(sessions)),
          avgCompletionRate |->
             Round(reduceSum(sessions, "completionRate"), Len(sessions)),
          totalWatchTime |-> totalWatchTime,
          dropOffPoints |-> sortByTime(dropOffMap(sessions, <<>>))]

\* the sessions of the recording, as the query returns them
InitAnalytics ==
    /\ ledger = [id \in Ids |-> NoDoc]
    /\ settings = ""
    /\ gcs = {}
    /\ drive = <<>>
    /\ signed = {}
    /\ hs = [h \in Slots |-> Idle]
    /\ response = NoResponse
    /\ used = {}
    /\ viewsDone = [id \in Ids |-> 0]
    /\ ops = 0
    /\ clock = 0
    /\ poller = Unmounted
    /\ player = NoPlayer
    /\ session = NoSession
    /\ tracks = [t \in Slots |-> NoTrack]
    /\ accepted = NoEvents
    /\ recorder = NoRecorder
    /\ inflight = <<>>
    /\ \E n \in 0..MaxSessions : \E sessions \in [1..n -> SessionDocs] :
          call = [fn |-> "analytics", sessions |-> sessions, done |-> FALSE,
                  result |-> getRecordingAnalytics(<<>>)]

AnalyticsRespond ==
    /\ call.fn = "analytics" /\ ~call.done
    /\ call' = [call EXCEPT !.done = TRUE,
                            !.result = getRecordingAnalytics(call.sessions)]
    /\ UNCHANGED <<ledger, settings, gcs, drive, signed, hs, response, used,
                   viewsDone, ops, clock, poller, player, session, tracks,
                   accepted, recorder, inflight>>

SpecAnalytics == InitAnalytics /\ [][AnalyticsRespond]_vars

\* ------------------------------------------------------ useRecorder
MaxCalls == 5                         \* calls of the hook's actions
MaxDuration == 2                      \* seconds the timer counts

\* setState({ isRecording: false, isPaused: false, duration: 0,
\*            screenStream: null, webcamStream: null, error: null })
IdleState(r) ==
    [r EXCEPT !.isRecording = FALSE, !.isPaused = FALSE, !.duration = 0,
              !.screenStream = FALSE, !.webcamStream = FALSE, !.error = FALSE]

\* the hook after the action or event `name` has run and left it as r
Called(name, r) == [r EXCEPT !.called = name]

\* a hook that has just been mounted
InitRecorder ==
    /\ ledger = [id \in Ids |-> NoDoc]
    /\ settings = ""
    /\ gcs = {}
    /\ drive = <<>>
    /\ signed = {}
    /\ hs = [h \in Slots |-> Idle]
    /\ response = NoResponse
    /\ used = {}
    /\ viewsDone = [id \in Ids |-> 0]
    /\ ops = 0
    /\ clock = 0
    /\ poller = Unmounted
    /\ player = NoPlayer
    /\ call = NoCall
    /\ session = NoSession
    /\ tracks = [t \in Slots |-> NoTrack]
    /\ accepted = NoEvents
    /\ recorder = NoRecorder
    /\ inflight = <<>>

RecorderFrame ==
    UNCHANGED <<ledger, settings, gcs, drive, signed, hs, response, used,
                viewsDone, clock, poller, player, call, session, tracks,
                accepted, inflight>>

\* one more call of an action of the hook
RecorderCall ==
    /\ ops < MaxCalls
    /\ ops' = ops + 1

\* startRecording up to its first await (getDisplayMedia): the error is
\* cleared; the start button is on screen only while nothing is recorded
\* and no start is under way
startRecording ==
    /\ RecorderCall
    /\ ~recorder.starting /\ ~recorder.isRecording
    /\ recorder' = Called("start", [recorder EXCEPT !.error = FALSE, !.starting = TRUE])
    /\ RecorderFrame

\* startRecording after its awaits: with a screen stream the MediaRecorder
\* is created, put in mediaRecorderRef and started, the state is set and the
\* timer started (a timer still running is not cleared); without one the
\* error is set and the promise rejects
startRecording_resume(screen, webcam) ==
    /\ recorder.starting
    /\ recorder' = Called("started",
          IF screen
          THEN [recorder EXCEPT !.starting = FALSE,
                                !.mediaRecorder = "recording",
                                !.isRecording = TRUE, !.isPaused = FALSE,
                                !.duration = 0, !.screenStream = TRUE,
                                !.webcamStream = webcam, !.error = FALSE,
                                !.share = TRUE,
                                !.leaked = recorder.leaked \/ recorder.timer,
                                !.timer = TRUE]
          ELSE [recorder EXCEPT !.starting = FALSE, !.error = TRUE])
    /\ UNCHANGED ops
    /\ RecorderFrame

\* stopRecording: resolve(null) when there is no MediaRecorder or it is
\* inactive; else onstop is set and stop() called: the MediaRecorder is
\* inactive at once and its stop event is queued
stopRecording ==
    /\ RecorderCall
    /\ recorder' = Called("stop",
          IF recorder.mediaRecorder \in {"null", "inactive"}
          THEN [recorder EXCEPT !.resolved = "null"]
          ELSE [recorder EXCEPT !.mediaRecorder = "inactive",
                                !.onstop = @ + 1,
                                !.resolved = "none"])
    /\ RecorderFrame

\* the stop event of a MediaRecorder that stopRecording stopped: onstop
\* stops the tracks and the timer, sets the idle state, resolves the blob
onstop ==
    /\ recorder.onstop > 0
    /\ recorder' = Called("onstop", [IdleState(recorder) EXCEPT !.onstop = @ - 1,
                                               !.timer = FALSE,
                                               !.share = FALSE,
                                               !.resolved = "blob"])
    /\ UNCHANGED ops
    /\ RecorderFrame

\* pauseRecording: only with a MediaRecorder that is recording
pauseRecording ==
    /\ RecorderCall
    /\ recorder' = Called("pause",
          IF recorder.mediaRecorder = "recording"
          THEN [recorder EXCEPT !.mediaRecorder = "paused",
                                !.timer = FALSE,
                                !.isPaused = TRUE]
          ELSE recorder)
    /\ RecorderFrame

\* resumeRecording: only with a MediaRecorder that is paused
resumeRecording ==
    /\ RecorderCall
    /\ recorder' = Called("resume",
          IF recorder.mediaRecorder = "paused"
          THEN [recorder EXCEPT !.mediaRecorder = "recording",
                                !.leaked = recorder.leaked \/ recorder.timer,
                                !.timer = TRUE,
                                !.isPaused = FALSE]
          ELSE recorder)
    /\ RecorderFrame

\* cancelRecording: stop() of a MediaRecorder that is not inactive (its
\* onstop is not set here), tracks and timer stopped, the idle state set
cancelRecording ==
    /\ RecorderCall
    /\ recorder' = Called("cancel",
          [IdleState(recorder) EXCEPT
              !.mediaRecorder = IF @ \in {"recording", "paused"}
                                THEN "inactive" ELSE @,
              !.timer = FALSE,
              !.share = FALSE])
    /\ RecorderFrame

\* the browser ends the screen-share track (the user clicks "Stop
\* sharing"): onended stops a MediaRecorder that is recording; no onstop
\* is set, and the state is not touched
onended ==
    /\ recorder.share
    /\ recorder' = Called("onended",
          [recorder EXCEPT !.share = FALSE,
                           !.mediaRecorder = IF @ = "recording"
                                             THEN "inactive" ELSE @])
    /\ UNCHANGED ops
    /\ RecorderFrame

\* the interval of startTimer fires: duration is the seconds elapsed
timerTick ==
    /\ recorder.timer \/ recorder.leaked
    /\ recorder.duration < MaxDuration
    /\ recorder' = Called("tick", [recorder EXCEPT !.duration = @ + 1])
    /\ UNCHANGED ops
    /\ RecorderFrame

NextRecorder ==
    \/ startRecording
    \/ \E screen, webcam \in BOOLEAN : startRecording_resume(screen, webcam)
    \/ stopRecording
    \/ onstop
    \/ pauseRecording
    \/ resumeRecording
    \/ cancelRecording
    \/ onended
    \/ timerTick

SpecRecorder == InitRecorder /\ [][NextRecorder]_vars

\* ------------------------------- UploadProgress, requests in flight
MaxInFlight == 2                      \* polls sent and not answered yet

\* an UploadProgress just mounted, nothing sent yet
InitFlight ==
    /\ ledger = [id \in Ids |-> NoDoc]
    /\ settings = ""
    /\ gcs = {}
    /\ drive = <<>>
    /\ signed = {}
    /\ hs = [h \in Slots |-> Idle]
    /\ response = NoResponse
    /\ used = {}
    /\ viewsDone = [id \in Ids |-> 0]
    /\ ops = 0
    /\ clock = 0
    /\ poller = Mounted
    /\ player = NoPlayer
    /\ call = NoCall
    /\ session = NoSession
    /\ tracks = [t \in Slots |-> NoTrack]
    /\ accepted = NoEvents
    /\ recorder = NoRecorder
    /\ inflight = <<>>

FlightFrame ==
    UNCHANGED <<ledger, settings, gcs, drive, signed, hs, response, used,
                viewsDone, ops, clock, player, call, session, tracks,
                accepted, recorder>>

\* checkStatus up to its await: pollCount++ and the fetch is sent (at mount
\* and by the interval, which runs only while the effect is live).  A poll
\* in flight holds the pollCount of its effect: the live one's, or for an
\* effect that was cleaned up (old) the value it stopped at
PollSend ==
    /\ poller.polling
    /\ Len(inflight) < MaxInFlight
    /\ poller' = [poller EXCEPT !.pollCount =
                     IF @ > maxPolls THEN @ ELSE @ + 1]
    /\ inflight' = Append(inflight, [old |-> FALSE, pollCount |-> 0])
    /\ FlightFrame

\* checkStatus after its await, for the i-th poll in flight (answers may come
\* in any order): setStatus and the ceiling test run whether or not the
\* effect that sent the poll is still live; a changed status runs the
\* effect again, which cleans up the interval and starts a new one unless
\* the status is ready or error
PollReceive(i, res) ==
    LET p == inflight[i]
        rest == [k \in 1..Len(inflight) - 1 |->
                    IF k < i THEN inflight[k] ELSE inflight[k + 1]]
        status == checkStatus(poller.status,
                              IF p.old THEN p.pollCount ELSE poller.pollCount,
                              res)
    IN
    /\ i \in 1..Len(inflight)
    /\ IF status = poller.status
       THEN /\ poller' = poller
            /\ inflight' = rest
       ELSE /\ poller' = [status |-> status, pollCount |-> 0,
                          polling |-> status \notin {"ready", "error"}]
            /\ inflight' = [k \in 1..Len(rest) |->
                               IF rest[k].old THEN rest[k]
                               ELSE [old |-> TRUE,
                                     pollCount |-> poller.pollCount]]
    /\ FlightFrame

NextFlight ==
    \/ PollSend
    \/ \E i \in 1..MaxInFlight, res \in PollResults : PollReceive(i, res)

SpecFlight == InitFlight /\ [][NextFlight]_vars

\* ==================================================================
\* Properties
\* ==================================================================

\* the recording is in the ledger before and after the step (ids are never
\* drawn twice, so it is the same recording)
SameRecording(id) == ledger[id].exists /\ ledger'[id].exists

\* the handler in slot h takes this step
Moves(h) == hs'[h].pc # hs[h].pc

\* one step of processing, uploading, (ready | error)
StatusStep(a, b) ==
    \/ a = b
    \/ a = "processing" /\ b \in {"uploading", "error"}
    \/ a = "uploading" /\ b \in {"ready", "error"}

\* C1: State monotonicity - for every recording the status values taken over
\* time form a subsequence of processing, uploading, (ready | error): no
\* step moves the status back and none goes from processing to ready.
C1_StatusMonotone ==
    [][\A id \in Ids :
         SameRecording(id) => StatusStep(ledger[id].status, ledger'[id].status)]_vars

\* C2: Once the status of a recording is ready it stays ready until the
\* recording is deleted.
C2_ReadyIsTerminal ==
    [][\A id \in Ids :
         SameRecording(id) /\ ledger[id].status = "ready"
            => ledger'[id].status = "ready"]_vars

\* C3: Ready implies file ref - every recording with status ready has a
\* non-empty driveFileId and an empty gcsPath.
C3_ReadyImpliesFileRef ==
    \A id \in Ids :
        ledger[id].exists /\ ledger[id].status = "ready"
           => ledger[id].driveFileId # 0 /\ ledger[id].gcsPath = ""

\* C4: No double upload - at most one Drive file is ever created for a
\* recording, whatever the interleaving of triggers and direct uploads.
C4_AtMostOnePut ==
    \A i, j \in 1..Len(drive) :
        drive[i].owner = drive[j].owner => i = j

\* C5: Idempotent view counting - with any interleaving of the reads and
\* writes of concurrent incrementViewCount calls on a recording, viewCount
\* is the number of calls that have completed on it: none lost, none twice.
C5_ViewCountExact ==
    \A id \in Ids :
        ledger[id].exists => ledger[id].viewCount = viewsDone[id]

\* a call has read viewCount, another call committed its increment after
\* that read, and the first is about to commit
C5_Witness ==
    \E h \in Slots :
        /\ hs[h].kind = "view" /\ hs[h].pc = "txCommit" /\ hs[h].dirty
        /\ ledger[hs[h].id].exists
        /\ ledger[hs[h].id].viewCount = hs[h].cnt + 1
        /\ viewsDone[hs[h].id] = 1

\* C6: Trigger without upload fails - a transfer trigger whose existence
\* check finds no object at the recording's gcsPath goes to the not-found
\* branch, which writes status error and answers 404 UploadNotFound; from
\* there on the invocation puts nothing into Drive and writes no status but
\* error (when the error write itself throws, the catch block answers 500).
C6_TriggerWithoutUpload ==
    [][\A h \in Slots :
         LET r == hs[h] IN
         r.kind = "transfer" /\ Moves(h) =>
            /\ r.pc = "exists" /\ r.gcsPath \notin gcs =>
                  /\ hs'[h].pc \in {"nfErr", "catch"}
                  /\ UNCHANGED <<ledger, drive>>
            /\ r.pc = "nfErr" =>
                  /\ drive' = drive
                  /\ \/ /\ hs'[h].pc = "idle"
                        /\ response' = [kind |-> "transfer", id |-> r.id,
                                        code |-> "404 UploadNotFound",
                                        driveFileId |-> 0]
                        /\ ledger'[r.id].exists
                        /\ ledger'[r.id].status = "error"
                     \/ /\ hs'[h].pc = "catch"
                        /\ ledger' = ledger
            /\ r.pc = "catch" =>
                  /\ hs'[h].pc = "idle"
                  /\ drive' = drive
                  /\ response'.code = "500"
                  /\ ledger' = ledger \/ ledger'[r.id].status = "error"
      ]_vars

\* the trigger of a signed-URL recording has answered 404 UploadNotFound
\* before any object was put: status error, nothing in Drive
C6_Witness ==
    \E id \in Ids :
        /\ response = [kind |-> "transfer", id |-> id,
                       code |-> "404 UploadNotFound", driveFileId |-> 0]
        /\ ledger[id].exists /\ ledger[id].status = "error"
        /\ ledger[id].gcsPath = GcsPathOf(id)
        /\ GcsPathOf(id) \notin gcs
        /\ drive = <<>>

\* C7: Re-invoking the transfer trigger for a recording whose status is
\* ready fails with MissingUpload, downloads nothing, puts nothing into
\* Drive and leaves the ledger unchanged, however the recording became ready.
C7_ReadyTriggerRejected ==
    [][\A h \in Slots :
         LET r == hs[h] IN
         /\ r.kind = "transfer" /\ r.pc = "get" /\ Moves(h)
         /\ ledger[r.id].exists /\ ledger[r.id].status = "ready"
         => /\ hs'[h].pc = "idle"
            /\ response'.code = "400 MissingUpload"
            /\ UNCHANGED <<ledger, gcs, drive>>
      ]_vars

\* the pc a transfer reaches from `pc` when the call at `pc` succeeds
TransferNextPc(pc) ==
    CASE pc = "exists" -> "settings"
      [] pc = "settings" -> "markUploading"
      [] pc = "markUploading" -> "download"
      [] pc = "download" -> "create"
      [] pc = "create" -> "perm"
      [] pc = "perm" -> "info"
      [] pc = "info" -> "gcsDelete"
      [] pc = "gcsDelete" -> "markReady"
      [] OTHER -> "idle"

C10_HoldingPathCleared ==
    [][\A h \in Slots :
         LET r == hs[h] IN
         r.kind = "transfer" /\ Moves(h) =>
            /\ r.pc = "gcsDelete" =>
                  /\ hs'[h].pc = "markReady"
                  /\ gcs' = gcs \ {r.gcsPath} \/ gcs' = gcs
                  /\ ledger' = ledger
            /\ hs'[h].pc = "markReady" => r.pc = "gcsDelete"
            /\ hs'[h].pc = "idle" /\ response'.code = "200" =>
                  /\ r.pc = "markReady"
                  /\ ledger'[r.id].status = "ready"
                  /\ ledger'[r.id].gcsPath = ""
                  /\ ledger'[r.id].driveFileId = r.fileId
                  /\ response'.driveFileId = r.fileId
      ]_vars

\* a trigger has answered 200: the recording is ready with gcsPath cleared
\* and the holding object is gone
C10_Witness ==
    \E id \in Ids :
        /\ response.kind = "transfer" /\ response.id = id /\ response.code = "200"
        /\ ledger[id].exists /\ ledger[id].status = "ready"
        /\ ledger[id].gcsPath = ""
        /\ ledger[id].driveFileId = response.driveFileId
        /\ response.driveFileId # 0
        /\ GcsPathOf(id) \notin gcs

\* C11: Every handler that has moved a recording to uploading and then
\* fails writes status error before it returns: with Firestore available, a
\* handler that is past its uploading write and ends without success leaves
\* the recording in status error.
C11_ErrorBeforeReturn ==
    [][\A h \in Slots :
         LET r == hs[h] IN
         /\ r.kind \in Uploaders /\ r.marked /\ Moves(h)
         /\ hs'[h].pc = "idle" /\ r.pc # "markReady"
         /\ ledger[r.id].exists
         => ledger'[r.id].status = "error"
      ]_vars

\* C12: When the best-effort write of status error fails in the failure
\* handling of a direct upload, a transfer trigger or a background upload,
\* that failure is swallowed: the handler still ends, the upload and the
\* trigger answer 500, and no error escapes the background upload.
C12_ErrorWriteFailureSwallowed ==
    [][\A h \in Slots :
         LET r == hs[h] IN
         r.kind \in {"upload", "transfer", "bg"} /\ r.pc = "catch" /\ Moves(h) =>
            /\ hs'[h].pc = "idle"
            /\ r.kind # "bg" =>
                  response' = [kind |-> r.kind, id |-> r.id, code |-> "500",
                               driveFileId |-> 0]
            /\ r.kind = "bg" => response' = response
      ]_vars

\* the outcomes of an upload or trigger that fails before any mutation
EarlyFailures == {"404 NotFound", "400 MissingUpload", "400 Misconfigured"}

\* C13: A direct upload or transfer trigger that fails with NotFound,
\* MissingUpload or Misconfigured leaves the ledger, the holding bucket and
\* Drive as they were: these answers are given from the loading steps only,
\* the loading steps write nothing, an unknown id and an unset folder are
\* answered at once, and a trigger that loaded a recording without gcsPath
\* goes no further.
C13_EarlyFailureNoEffect ==
    [][\A h \in Slots :
         LET r == hs[h]
             n == hs'[h]
         IN
         r.kind \in {"upload", "uploadQ", "transfer"} /\ Moves(h) =>
            /\ r.pc \in {"get", "exists", "settings"} =>
                  UNCHANGED <<ledger, gcs, drive>>
            /\ n.pc = "idle" /\ response'.code \in EarlyFailures =>
                  /\ r.pc \in {"get", "settings"}
                  /\ ~r.marked /\ r.fileId = 0
                  /\ response'.kind = r.kind /\ response'.id = r.id
            /\ n.pc = "exists" => r.pc = "get"
            /\ n.pc = "settings" =>
                  r.pc = CASE r.kind = "upload" -> "get"
                           [] r.kind = "transfer" -> "exists"
                           [] OTHER -> "settings"
            /\ r.pc = "get" /\ ~ledger[r.id].exists /\ n.pc # "catch" =>
                  n.pc = "idle" /\ response'.code = "404 NotFound"
            /\ r.pc = "settings" /\ settings = "" /\ n.pc # "catch" =>
                  n.pc = "idle" /\ response'.code = "400 Misconfigured"
            /\ r.kind = "transfer" /\ n.pc \notin {"idle", "catch"} =>
                  n.gcsPath # ""
      ]_vars

\* a trigger has been answered MissingUpload for a recording created without
\* a holding path, which is still as the create left it
C13_Witness ==
    \E id \in Ids :
        /\ response = [kind |-> "transfer", id |-> id,
                       code |-> "400 MissingUpload", driveFileId |-> 0]
        /\ ledger[id].exists /\ ledger[id].status = "processing"
        /\ ledger[id].gcsPath = ""
        /\ gcs = {} /\ drive = <<>>

\* C14: A direct upload with an empty payload is rejected with a validation
\* error (400), never puts a file into Drive, and leaves the recording with
\* status error and an empty driveFileId.
C14_EmptyPayloadRejected ==
    [][\A h \in Slots :
         LET r == hs[h]
             n == hs'[h]
         IN
         r.kind \in {"upload", "uploadQ"} /\ r.size = 0 /\ Moves(h) =>
            /\ n.pc # "create"
            /\ r.marked /\ n.pc = "idle" /\ r.pc # "catch" =>
                  /\ response'.code = "400 EmptyPayload"
                  /\ ledger'[r.id].status = "error"
                  /\ ledger'[r.id].driveFileId = 0
      ]_vars

\* the three create operations
Creates == {"createJson", "createSigned", "createFile"}

\* C15: When Settings has no destination folder, every create operation
\* fails with Misconfigured (400), persists no recording and starts no
\* upload: the answer is given at the settings read, nothing is written by
\* it, and a create goes on to sign or persist only with a folder in hand.
C15_CreateNeedsFolder ==
    [][\A h \in Slots :
         LET r == hs[h]
             n == hs'[h]
         IN
         r.kind \in Creates /\ Moves(h) =>
            /\ r.pc = "settings" /\ settings = "" =>
                  /\ n = Idle
                  /\ response' = [kind |-> r.kind, id |-> r.id,
                                  code |-> "400 Misconfigured", driveFileId |-> 0]
                  /\ UNCHANGED <<ledger, gcs, drive, signed>>
            /\ n.pc \in {"sign", "set"} => n.folder # "" /\ n.kind = r.kind
            /\ n.kind = "bg" => r.kind = "createFile" /\ r.pc = "set"
            /\ ledger' # ledger => r.pc = "set" /\ r.folder # ""
      ]_vars

\* a create has been answered Misconfigured: no folder, no recording, no
\* signed URL, no upload running
C15_Witness ==
    /\ settings = ""
    /\ response.kind \in Creates /\ response.code = "400 Misconfigured"
    /\ \A id \in Ids : ~ledger[id].exists
    /\ signed = {} /\ drive = <<>>
    /\ \A h \in Slots : Free(h)

\* C16: Every recording returned by a successful create is persisted with
\* status processing, an empty driveFileId, viewCount 0, createdAt equal to
\* updatedAt, driveFolderId the Settings folder the create read, and, for
\* the signed-URL create, gcsPath "uploads/<id>.webm".
C16_CreatedRecording ==
    [][\A h \in Slots :
         LET r == hs[h]
             n == hs'[h]
             doc == ledger'[r.id]
         IN
         r.kind \in Creates /\ Moves(h) =>
            /\ r.pc = "settings" /\ n.pc # "idle" => n.folder = settings
            /\ r.pc = "sign" /\ n.pc # "idle" => n.folder = r.folder
            /\ n.kind # r.kind /\ response'.code = "200" => r.pc = "set"
            /\ r.pc = "set" /\ response'.code = "200" =>
                  /\ doc.exists /\ doc.id = r.id
                  /\ doc.status = "processing"
                  /\ doc.driveFileId = 0
                  /\ doc.viewCount = 0
                  /\ doc.createdAt = doc.updatedAt /\ doc.createdAt = clock
                  /\ doc.driveFolderId = r.folder /\ r.folder # ""
                  /\ doc.gcsPath = IF r.kind = "createSigned"
                                   THEN "uploads/" \o r.id \o ".webm" ELSE ""
      ]_vars

\* a signed-URL create made after the clock moved and with folder F2 saved
\* has answered: the recording is as the create wrote it
C16_Witness ==
    \E id \in Ids :
        /\ response = [kind |-> "createSigned", id |-> id, code |-> "200",
                       driveFileId |-> 0]
        /\ ledger[id].exists /\ ledger[id].status = "processing"
        /\ ledger[id].gcsPath = "uploads/abc12345.webm"
        /\ ledger[id].driveFolderId = "F2"
        /\ ledger[id].createdAt = 1 /\ ledger[id].updatedAt = 1
        /\ ledger[id].viewCount = 0 /\ ledger[id].driveFileId = 0

\* C17: The Drive file of a recording is always put into the folder stamped
\* into the recording at creation (its driveFolderId), whatever edits were
\* made to Settings since.
C17_FileInStampedFolder ==
    \A i \in 1..Len(drive) :
        ledger[drive[i].owner].exists =>
            drive[i].folder = ledger[drive[i].owner].driveFolderId

\* C18: The ledger update, for any id and any partial fields, never changes
\* the stored id or createdAt of a recording, refreshes updatedAt, and fails
\* without creating a document when the id is absent.
C18_UpdateKeepsIdentity ==
    [][\A id \in Ids :
         ops' = ops + 1 =>
            IF ledger[id].exists
            THEN /\ ledger'[id].exists
                 /\ ledger'[id].id = ledger[id].id
                 /\ ledger'[id].createdAt = ledger[id].createdAt
                 /\ ledger'[id].updatedAt = clock
                 /\ response'.code = "resolved"
            ELSE /\ ledger' = ledger
                 /\ response'.code = "NOT_FOUND"
      ]_vars

\* C19: Deleting an existing recording removes its ledger entry and answers
\* success, after attempting to delete the Drive file when driveFileId is
\* set; a failure of that deletion does not stop the ledger deletion.
\* Deleting an unknown id answers 404 and changes nothing.
C19_DeleteRecording ==
    [][\A h \in Slots :
         LET r == hs[h]
             n == hs'[h]
             doc == ledger[r.id]
         IN
         r.kind = "delete" /\ Moves(h) =>
            /\ r.pc = "get" =>
                  /\ UNCHANGED <<ledger, gcs, drive>>
                  /\ IF ~doc.exists
                     THEN /\ n = Idle
                          /\ response' = [kind |-> "delete", id |-> r.id,
                                          code |-> "404 NotFound", driveFileId |-> 0]
                     ELSE IF doc.driveFileId # 0
                     THEN n.pc = "driveDelete" /\ n.fileId = doc.driveFileId
                     ELSE n.pc = "delete"
            /\ r.pc = "driveDelete" =>
                  /\ n.pc = "delete"
                  /\ ledger' = ledger
                  /\ \/ drive' = drive
                     \/ drive' = [drive EXCEPT ![r.fileId].present = FALSE]
            /\ r.pc = "delete" =>
                  /\ n = Idle
                  /\ ~ledger'[r.id].exists
                  /\ drive' = drive
                  /\ response' = [kind |-> "delete", id |-> r.id, code |-> "200",
                                  driveFileId |-> 0]
      ]_vars

\* a delete has answered success for a recording that had a Drive file: the
\* ledger entry is gone and the file has been deleted
C19_Witness ==
    \E id \in Ids :
        /\ response = [kind |-> "delete", id |-> id, code |-> "200",
                       driveFileId |-> 0]
        /\ ~ledger[id].exists
        /\ id \in used
        /\ Len(drive) = 1 /\ drive[1].owner = id /\ ~drive[1].present

\* C20: Each resolution of the share path of an existing recording increases
\* that recording's viewCount by exactly one, whatever its status, and renders
\* by the status it loaded: the stream for ready, the failure message for
\* error, the polling placeholder for processing and uploading. Resolving an
\* unknown id yields not-found and changes no counter.
C20_ShareResolution ==
    [][\A h \in Slots :
         LET r == hs[h]
             n == hs'[h]
             doc == ledger[r.id]
         IN
         r.kind = "view" /\ Moves(h) =>
            /\ r.pc = "get" =>
                  /\ ledger' = ledger
                  /\ IF doc.exists
                     THEN n.pc = "txGet" /\ n.saw = doc.status
                     ELSE n = Idle /\ response'.code = "404 NotFound"
            /\ r.pc = "txGet" /\ doc.exists =>
                  n.pc = "txCommit" /\ ledger' = ledger
            /\ r.pc = "txCommit" =>
                  /\ \A id \in Ids \ {r.id} : ledger'[id] = ledger[id]
                  /\ IF n.pc = "idle"
                     THEN /\ doc.exists
                          /\ ledger'[r.id].viewCount = doc.viewCount + 1
                     ELSE n.pc = "txGet" /\ ledger' = ledger
            /\ n.pc = "idle" /\ r.pc # "get" =>
                  /\ r.saw = "ready" => response'.code = "stream"
                  /\ r.saw = "error" => response'.code = "failed"
                  /\ r.saw \in {"processing", "uploading"} =>
                        response'.code = "polling"
                  /\ response'.kind = "view" /\ response'.id = r.id
                  /\ r.pc = "txGet" => ~doc.exists /\ ledger' = ledger
      ]_vars

\* a failed recording has been viewed once: the failure message was rendered
\* and the counter stands at one
C20_Witness ==
    \E id \in Ids :
        /\ response = [kind |-> "view", id |-> id, code |-> "failed",
                       driveFileId |-> 0]
        /\ ledger[id].exists /\ ledger[id].status = "error"
        /\ ledger[id].viewCount = 1

\* C21: From the create's answer until the recording is deleted, neither the
\* share path nor the status endpoint answers not-found for its id: a create
\* answers success only with the document written, still processing and
\* without a file; only the last step of a delete removes a document; and the
\* share path and the status endpoint answer not-found only when they find
\* no document.
C21_ShareLinkLive ==
    [][/\ \A h \in Slots :
            LET r == hs[h] IN
            /\ r.kind \in Creates /\ hs'[h].kind # r.kind
               /\ response'.code = "200" =>
                  /\ ledger'[r.id].exists
                  /\ ledger'[r.id].status = "processing"
                  /\ ledger'[r.id].driveFileId = 0
            /\ r.kind \in {"status", "view"} /\ hs'[h].kind # r.kind
               /\ response'.code = "404 NotFound" =>
                  r.pc = "get" /\ ~ledger[r.id].exists
       /\ \A id \in Ids :
            ledger[id].exists /\ ~ledger'[id].exists =>
               \E h \in Slots : /\ hs[h].kind = "delete" /\ hs[h].pc = "delete"
                                /\ hs[h].id = id /\ Moves(h)
      ]_vars

\* the status endpoint has answered for a recording that exists and whose
\* upload has not completed
C21_Witness ==
    \E id \in Ids :
        /\ response.kind = "status" /\ response.id = id
        /\ response.code = "processing"
        /\ ledger[id].exists /\ ledger[id].status = "processing"

\* C22: The uploading client's poller stops after a bounded number of polls:
\* whatever sequence of processing / uploading answers and failed requests
\* it receives, it ends up not polling, with local status ready or error.
C22_PollerStops ==
    <>(~poller.polling /\ poller.status \in {"ready", "error"})

\* C23: The share-link viewer, while the status it observes is processing or
\* uploading, polls up to a ceiling and then stops: whatever answers it
\* receives, it ends up not polling.
C23_ViewerStops ==
    <>(~player.polling)

\* C24: The streaming endpoint serves the bytes of the Drive file only for a
\* recording whose status is ready; for an unknown id and for a recording
\* that is processing, uploading or error it answers 404 and streams
\* nothing.
C24_StreamOnlyReady ==
    [][\A h \in Slots :
         LET r == hs[h]
             doc == ledger[r.id]
         IN
         r.kind = "stream" /\ hs'[h].kind # r.kind =>
            /\ response'.code = "stream" => r.saw = "ready"
            /\ r.pc = "get" /\ (~doc.exists \/ doc.status # "ready") =>
                  response'.code \in {"404 NotFound", "404 NotUploaded"}
      ]_vars

\* C25: Recording ids are unique and immutable: a create never overwrites or
\* resets a recording that is in the ledger, also when the id it generated
\* is the id of that recording, and no operation changes the id of a stored
\* recording.
C25_IdUniqueImmutable ==
    [][\A id \in Ids :
         ledger[id].exists =>
            /\ ledger'[id].exists => ledger'[id].id = ledger[id].id
            /\ \A h \in Slots :
                  hs[h].kind \in Creates /\ hs[h].id = id /\ Moves(h) =>
                     /\ ledger'[id].status = ledger[id].status
                     /\ ledger'[id].driveFileId = ledger[id].driveFileId
                     /\ ledger'[id].gcsPath = ledger[id].gcsPath
                     /\ ledger'[id].viewCount = ledger[id].viewCount
                     /\ ledger'[id].createdAt = ledger[id].createdAt
      ]_vars

\* C26: A rename (PATCH) changes at most the title and updatedAt of the
\* recording it addresses, whatever its body holds: id, status, driveFileId,
\* gcsPath, driveFolderId, viewCount and createdAt stay as they are; a rename
\* of an unknown id answers 404 and creates nothing.
C26_RenameFrame ==
    [][\A h \in Slots :
         LET r == hs[h] IN
         r.kind = "rename" /\ Moves(h) =>
            /\ \A id \in Ids \ {r.id} : ledger'[id] = ledger[id]
            /\ \A f \in DOMAIN NoDoc \ {"title", "updatedAt"} :
                  ledger'[r.id][f] = ledger[r.id][f]
            /\ r.pc = "get" =>
                  /\ ledger' = ledger
                  /\ IF ledger[r.id].exists THEN hs'[h].pc = "update"
                     ELSE /\ hs'[h] = Idle
                          /\ response' = [kind |-> "rename", id |-> r.id,
                                          code |-> "404 NotFound",
                                          driveFileId |-> 0]
      ]_vars

\* a rename whose body also carried a status, an id and a viewCount has been
\* answered: the title is the new one and the rest is as the upload left it
C26_Witness ==
    \E id \in Ids :
        /\ response = [kind |-> "rename", id |-> id, code |-> "200",
                       driveFileId |-> 0]
        /\ ledger[id].exists /\ ledger[id].title = "Notes"
        /\ ledger[id].id = id /\ ledger[id].status = "ready"
        /\ ledger[id].driveFileId = 1 /\ ledger[id].viewCount = 0

\* C27: Within one upload or transfer the order is: put into Drive, make the
\* file readable by anyone with the link, write status ready.  Hence a
\* ledger entry that is ready names a file that exists in Drive and is
\* public, and a failed put or permission step never leads to ready.
C27_ReadyFilePublic ==
    \A id \in Ids :
        ledger[id].exists /\ ledger[id].status = "ready" =>
            /\ ledger[id].driveFileId \in 1..Len(drive)
            /\ drive[ledger[id].driveFileId].present
            /\ drive[ledger[id].driveFileId].public

\* C27 as amended: a ledger entry that is ready names a file that was put
\* into Drive and made public before the ready write, by the handler that
\* wrote ready, and that existed at the write; a file stops existing only by
\* the Drive step of a delete; a handler whose put or permission step failed
\* never writes ready.
C27_ReadyAfterPublic ==
    [][/\ \A id \in Ids :
            LET f == ledger'[id].driveFileId IN
            ledger'[id].exists /\ ledger'[id].status = "ready" =>
               /\ f \in 1..Len(drive') /\ drive'[f].public
               /\ ledger[id].status # "ready" \/ ledger[id].driveFileId # f =>
                     \E h \in Slots :
                        /\ hs[h].kind \in Uploaders /\ hs[h].pc = "markReady"
                        /\ hs[h].id = id /\ hs[h].fileId = f
                        /\ hs'[h].pc = "idle"
                        /\ f \in 1..Len(drive)
                        /\ drive[f].present /\ drive[f].public
       /\ \A i \in 1..Len(drive) :
            /\ drive[i].public => drive'[i].public
            /\ drive[i].present /\ ~drive'[i].present =>
                  \E h \in Slots : /\ hs[h].kind = "delete"
                                   /\ hs[h].pc = "driveDelete"
                                   /\ hs[h].fileId = i /\ Moves(h)
       /\ \A h \in Slots :
            /\ hs[h].pc = "catch" => hs'[h].pc \in {"catch", "idle"}
            /\ hs[h].pc \in {"create", "perm"} /\ Moves(h) =>
                  \/ hs'[h].pc = "catch"
                  \/ /\ hs[h].pc = "create" /\ hs'[h].pc = "perm"
                     /\ drive'[hs'[h].fileId].present
                  \/ /\ hs[h].pc = "perm" /\ hs'[h].pc = "info"
                     /\ drive'[hs[h].fileId].public
      ]_vars

\* a direct upload or a transfer has answered success: the ledger is ready
\* and names a file that is in Drive and public
C27_Witness ==
    \E id \in Ids :
        /\ response.kind \in {"upload", "transfer"} /\ response.code = "200"
        /\ response.id = id
        /\ ledger[id].exists /\ ledger[id].status = "ready"
        /\ ledger[id].driveFileId \in 1..Len(drive)
        /\ drive[ledger[id].driveFileId].present
        /\ drive[ledger[id].driveFileId].public
        /\ drive[ledger[id].driveFileId].owner = id

\* C28: The Drive file name derived for a recording is its title with every
\* character outside [a-zA-Z0-9] replaced by '_', followed by '_', the id
\* and '.webm'; the names derived for two recordings with different ids
\* differ, whatever their titles.
C28_FileNameUnique ==
    call.fn = "fileName" /\ call.done =>
        /\ call.name1 = [i \in 1..Len(call.title1) |->
                            IF call.title1[i] \in AlphaNumeric
                            THEN call.title1[i] ELSE "_"]
                        \o <<"_">> \o call.id1 \o <<".", "w", "e", "b", "m">>
        /\ call.id1 # call.id2 => call.name1 # call.name2

\* C29: For a file of S bytes and a Range header 'bytes=a-b' with
\* 0 <= a <= b < S the streaming endpoint answers 206 with Content-Range
\* 'bytes a-b/S' and Content-Length b-a+1; for 'bytes=a-' it takes b = S-1;
\* without a Range header it answers 200 with Content-Length S; each of
\* these responses has Accept-Ranges: bytes.
C29_RangeArithmetic ==
    call.fn = "stream" /\ call.done =>
        LET res == call.result IN
        /\ res.AcceptRanges = "bytes"
        /\ IF call.form = "none"
           THEN res.status = 200 /\ parseInt(res.ContentLength) = call.fileSize
           ELSE /\ res.status = 206
                /\ parseInt(res.ContentLength) = call.b - call.a + 1
                /\ res.ContentRange =
                      <<"b", "y", "t", "e", "s", " ">> \o toString(call.a)
                         \o <<"-">> \o toString(call.b) \o <<"/">>
                         \o toString(call.fileSize)

\* an open range 'bytes=10-' on a file of 12 bytes has been answered
C29_Witness ==
    /\ call.fn = "stream" /\ call.done
    /\ call.form = "open" /\ call.a = 10 /\ call.fileSize = 12
    /\ call.result.status = 206
    /\ call.result.ContentRange =
          <<"b", "y", "t", "e", "s", " ", "1", "0", "-", "1", "1", "/", "1", "2">>
    /\ call.result.ContentLength = <<"2">>

\* C30: After any sequence of tracked events of a viewer session its
\* completionRate is an integer from 0 to 100; watchedSeconds is written
\* only by a video_progress event and then does not exceed the duration used
\* for that event; a video_ended event sets completionRate to 100 and
\* records endedAt.
C30_SessionBounds ==
    [][/\ session'.completionRate \in 0..100
       /\ \A t \in Slots :
            LET r == tracks[t]
                vd == IF r.duration \in {Undefined, 0}
                      THEN call.recordingDuration ELSE r.duration
            IN
            r.pc = "update" /\ tracks'[t].pc = "idle" =>
               /\ r.eventType = "video_ended" =>
                     /\ session'.completionRate = 100
                     /\ session'.endedAt # Undefined
               /\ session'.watchedSeconds # session.watchedSeconds =>
                     /\ r.eventType = "video_progress"
                     /\ session'.watchedSeconds <= vd
       /\ session'.watchedSeconds # session.watchedSeconds =>
            \E t \in Slots :
               /\ tracks[t].pc \in {"update", "sessionSet"}
               /\ tracks'[t].pc # tracks[t].pc
               /\ tracks[t].pc = "sessionSet" => session'.watchedSeconds = 0
      ]_vars

\* a session whose position went past the end of the video (9 s of 6 s) has
\* been capped at 100, with watched seconds counted
C30_Witness ==
    /\ session.exists
    /\ session.maxPosition = 9
    /\ session.completionRate = 100
    /\ session.endedAt = Undefined
    /\ session.watchedSeconds = 5
    /\ response.kind = "track" /\ response.code = "200"

\* C31: For a viewer session the stored maxPosition never decreases, and it is
\* the largest currentTime among the events answered success so far (0 when
\* there is none), also when two events of the session are handled at once.
C31_MaxPositionIsLargest ==
    [][/\ session'.maxPosition >= session.maxPosition
       /\ session'.maxPosition = accepted'.largest]_vars

\* C38: After N events of a session have been answered success, the session
\* document exists and its events counter is N, also when several of them,
\* the ones that create the session included, are handled at once.
C38_EventsCounted ==
    accepted.count > 0 =>
       /\ session.exists
       /\ session.events = accepted.count

\* C32: getRecordingAnalytics returns totalViews = number of sessions,
\* uniqueViewers = number of distinct viewerIds (at most totalViews),
\* totalWatchTime = sum of watchedSeconds, and drop-off points in which every
\* session is counted once in the bucket floor(maxPosition/5)*5: the counts
\* sum to totalViews and the bucket times are strictly ascending; with no
\* session every figure is 0 and the histogram is empty.
C32_Aggregates ==
    call.fn = "analytics" /\ call.done =>
       LET ss == call.sessions
           n == Len(ss)
           res == call.result
           pts == res.dropOffPoints
           InBucket(b) == {i \in 1..n : b <= ss[i].maxPosition
                                        /\ ss[i].maxPosition < b + 5}
           Buckets == {b \in 0..12 : b % 5 = 0 /\ InBucket(b) # {}}
       IN
       /\ res.totalViews = n
       /\ res.uniqueViewers <= res.totalViews
       /\ \E f \in [1..res.uniqueViewers -> ViewerIds] :
             /\ \A i, j \in DOMAIN f : i # j => f[i] # f[j]
             /\ {f[i] : i \in DOMAIN f} = {ss[i].viewerId : i \in 1..n}
       /\ res.totalWatchTime =
             5 * Cardinality({i \in 1..n : ss[i].watchedSeconds = 5})
       /\ {pts[k].time : k \in 1..Len(pts)} = Buckets
       /\ \A k \in 1..Len(pts) :
             pts[k].count = Cardinality(InBucket(pts[k].time))
       /\ \A k \in 1..Len(pts) - 1 : pts[k].time < pts[k + 1].time
       /\ n = 0 =>
             /\ res.avgWatchTime = 0 /\ res.avgCompletionRate = 0
             /\ res.uniqueViewers = 0 /\ res.totalWatchTime = 0
             /\ pts = <<>>

\* three sessions of two viewers, the later ones stopping earlier: two
\* buckets, listed 0 before 10
C32_Witness ==
    /\ call.fn = "analytics" /\ call.done
    /\ Len(call.sessions) = 3
    /\ call.sessions[1].maxPosition = 12
    /\ call.sessions[2].maxPosition = 4
    /\ call.sessions[3].maxPosition = 0
    /\ call.result.uniqueViewers = 2
    /\ call.result.dropOffPoints =
          <<[time |-> 0, count |-> 2], [time |-> 10, count |-> 1]>>

\* C33: The recorder hook keeps isPaused => isRecording in every reachable
\* state; pauseRecording changes state only when the recorder is recording,
\* resumeRecording only when it is paused, stopRecording resolves null and
\* changes nothing when no recorder is active, and cancelRecording always
\* returns the hook to the idle state (isRecording = false, isPaused =
\* false, duration = 0, no streams).
C33_RecorderPreconditions ==
    [][LET did == IF ops' = ops + 1 THEN recorder'.called ELSE "event"
           Same == [recorder' EXCEPT !.called = recorder.called,
                                     !.resolved = recorder.resolved] = recorder
       IN
       /\ recorder'.isPaused => recorder'.isRecording
       /\ did = "pause" /\ ~Same => recorder.mediaRecorder = "recording"
       /\ did = "resume" /\ ~Same => recorder.mediaRecorder = "paused"
       /\ did = "stop" /\ recorder.mediaRecorder \in {"null", "inactive"} =>
             Same /\ recorder'.resolved = "null"
       /\ did = "cancel" =>
             /\ ~recorder'.isRecording /\ ~recorder'.isPaused
             /\ recorder'.duration = 0
             /\ ~recorder'.screenStream /\ ~recorder'.webcamStream
      ]_vars

\* C34: In every reachable state of the recorder hook isRecording = true
\* implies that the MediaRecorder is recording or paused (or was stopped by
\* stopRecording and its stop event is still to come), also after the
\* browser has ended the screen-share track; hence stopRecording called
\* while isRecording is true and no stop is under way resolves with the
\* recorded blob, never with null.
C34_RecordingIsActive ==
    [][/\ recorder'.isRecording =>
             \/ recorder'.mediaRecorder \in {"recording", "paused"}
             \/ recorder'.onstop > 0
       /\ ops' = ops + 1 /\ recorder'.called = "stop"
             /\ recorder.isRecording /\ recorder.onstop = 0 =>
             recorder'.resolved # "null"
      ]_vars

\* C35: After a recording has been deleted, no operation that was in flight
\* for it (an upload or transfer about to write uploading, ready or error, a
\* view-count increment, a rename) re-creates its ledger entry: the id is
\* absent from the ledger until a create writes it. An absent entry changes
\* only by the set() of a create handler for that id.
C35_NoResurrection ==
    [][\A id \in Ids :
          ledger[id] = NoDoc /\ ledger'[id] # NoDoc =>
             \E h \in Slots :
                /\ hs[h].kind \in {"createJson", "createSigned", "createFile"}
                /\ hs[h].pc = "set"
                /\ hs[h].id = id
                /\ hs'[h].pc # "set"
                /\ ledger'[id].status = "processing"
      ]_vars

\* a recording was deleted while its direct upload was in flight: the upload
\* has put its file, found no entry to write to, and answered 500; the id is
\* still absent
C35_Witness ==
    \E id \in Ids :
        /\ id \in used
        /\ ledger[id] = NoDoc
        /\ response = [kind |-> "upload", id |-> id, code |-> "500",
                       driveFileId |-> 0]
        /\ Len(drive) = 1 /\ drive[1].owner = id /\ drive[1].present
        /\ \A h \in Slots : Free(h)

\* C36: Once a delete of a recording has succeeded and every handler that was
\* in flight for it has finished, no object uploaded for that recording
\* remains in the final store (the remote deletion of the delete itself not
\* having failed): a delete issued while a direct upload or a transfer is
\* running leaves no publicly readable object behind.
C36_NoOrphanObject ==
    \A id \in Ids :
        /\ id \in used
        /\ ledger[id] = NoDoc
        /\ \A h \in Slots : Free(h)
        => \A i \in 1..Len(drive) : drive[i].owner = id => ~drive[i].present

\* C37: A view-count increment and a status transition or rename of the same
\* recording that run concurrently both take effect in every interleaving:
\* the committed increment adds one to the stored viewCount and leaves
\* status, finalFileRef, holdingPath and title as they are stored, and every
\* other write to the recording leaves the stored viewCount as it is.
C37_BothTakeEffect ==
    [][LET Commits(h) == /\ hs[h].kind = "view" /\ hs[h].pc = "txCommit"
                         /\ hs'[h].pc = "idle" /\ response'.code # "500"
       IN
       /\ \A h \in Slots :
             Commits(h) =>
                /\ ledger[hs[h].id].exists
                /\ ledger'[hs[h].id] =
                      [ledger[hs[h].id] EXCEPT !.viewCount = @ + 1,
                                               !.updatedAt = clock]
       /\ \A id \in Ids :
             /\ ledger[id].exists /\ ledger'[id].exists
             /\ ~ \E h \in Slots : Commits(h) /\ hs[h].id = id
             => ledger'[id].viewCount = ledger[id].viewCount
      ]_vars

\* a view that loaded the recording while it was uploading has committed
\* its increment after the upload wrote ready: the recording is ready, has
\* its file, and counts one view
C37_Witness ==
    \E id \in Ids :
        /\ response = [kind |-> "view", id |-> id, code |-> "polling",
                       driveFileId |-> 0]
        /\ ledger[id].exists
        /\ ledger[id].status = "ready" /\ ledger[id].driveFileId # 0
        /\ ledger[id].viewCount = 1

\* C39: Once the status held by UploadProgress is ready or error, learned
\* from the ledger or set by the poll ceiling, the poller sends no further
\* poll and no response of a poll that was in flight changes that status.
C39_TerminalStaysPut ==
    [][poller.status \in {"ready", "error"} =>
          /\ poller'.status = poller.status
          /\ Len(inflight') <= Len(inflight)
      ]_vars

====
